---- MODULE Spec2Model ----
(***************************************************************************)
(* The spreadsheet ingestion path of the upload dialog                     *)
(* (src/src/components/upload-modal.tsx): parseExcelFile and the three row *)
(* normalizers parseTransactionsSheet, parseEMISheet and parseSavingsSheet.*)
(*                                                                         *)
(* JavaScript strings are sequences of one-character strings, so that      *)
(* toLowerCase, includes, replace and parseFloat are computed on the       *)
(* characters.  A JavaScript value is a record [k, s, n]: k is "str"       *)
(* (text s), "num" (the integer n), "nan" or "undef".                      *)
(***************************************************************************)
EXTENDS Integers, Sequences, FiniteSets, TLC

VARIABLES
    workbook,       \* the decoded workbook: sequence of [name, rows]
    pc,             \* "sheet" | "rows" | "done" | "rejected" | "parsed" | "failed"
    si,             \* index of the sheet the forEach callback is at
    role,           \* branch taken for the current sheet
    ri,             \* index of the row the normalizer's loop is at
    acc,            \* the normalizer's local array (transactions / emis / goals)
    keys,           \* headers bound to the fields for the last row processed
    result,         \* ParsedData under construction
    missingFields,  \* the Set built by parseTransactionsSheet
    warnings,       \* console.warn calls: sequence of spreadsheet row numbers
    parseError,     \* the parseError state of the dialog ("null" until set)
    tz,             \* the browser's time zone: minutes east of UTC
    previous,       \* how the earlier runs on the same workbook ended, one entry each
    kv,             \* the server's key-value store: key -> << >> or <<value>>
    nextId,         \* stands for Date.now() and Math.random() in the ids the server makes
    up,             \* per caller: the state of its handleFileUpload (or of its one call)
    req,            \* per caller: the request the server is handling, << >> or <<request>>
    resp            \* per caller: the response on its way to the caller, << >> or <<response>>

\* the server and its callers
serverVars == <<kv, nextId, up, req, resp>>

\* the variables parseExcelFile and the check after it leave alone
others == <<tz, previous, serverVars>>

\* the dialog's own variables, which the server and the uploads of the other
\* specifications leave alone
dialogVars == <<workbook, pc, si, role, ri, acc, keys, result, missingFields, warnings,
                parseError, tz, previous>>

vars == <<workbook, pc, si, role, ri, acc, keys, result, missingFields, warnings, parseError,
          tz, previous, kv, nextId, up, req, resp>>

----------------------------------------------------------------------------
(* JavaScript values *)

Str(s) == [k |-> "str", s |-> s, n |-> 0]
Num(n) == [k |-> "num", s |-> << >>, n |-> n]
NaN == [k |-> "nan", s |-> << >>, n |-> 0]
Undefined == [k |-> "undef", s |-> << >>, n |-> 0]

\* the currency glyph of the regular expression /[₹,\s]/g, as one character
Rupee == "INR"

UpperChars == <<"A","B","C","D","E","F","G","H","I","J","K","L","M","N","O","P","Q","R","S","T","U","V","W","X","Y","Z">>
LowerChars == <<"a","b","c","d","e","f","g","h","i","j","k","l","m","n","o","p","q","r","s","t","u","v","w","x","y","z">>
DigitChars == <<"0","1","2","3","4","5","6","7","8","9">>

DigitSet == { DigitChars[i] : i \in 1..Len(DigitChars) }
IsDigit(c) == c \in DigitSet
DigitValues == [ c \in DigitSet |-> (CHOOSE i \in 1..Len(DigitChars) : DigitChars[i] = c) - 1 ]
DigitVal(c) == DigitValues[c]

LowerOfUpper ==
    [ c \in { UpperChars[i] : i \in 1..Len(UpperChars) } |->
        LowerChars[CHOOSE i \in 1..Len(UpperChars) : UpperChars[i] = c] ]

LowerChar(c) == IF c \in DOMAIN LowerOfUpper THEN LowerOfUpper[c] ELSE c

\* String.prototype.toLowerCase
toLowerCase(s) == [i \in 1..Len(s) |-> LowerChar(s[i])]

\* String.prototype.includes
includes(s, t) ==
    \E i \in 0..(Len(s) - Len(t)) : SubSeq(s, i + 1, i + Len(t)) = t

RECURSIVE DigitsOf(_)
DigitsOf(n) ==
    IF n < 10 THEN <<DigitChars[n + 1]>>
    ELSE DigitsOf(n \div 10) \o <<DigitChars[(n % 10) + 1]>>

\* String(v) for the values a cell can hold
String(v) ==
    CASE v.k = "str" -> v.s
      [] v.k = "num" -> IF v.n < 0 THEN <<"-">> \o DigitsOf(-v.n) ELSE DigitsOf(v.n)
      [] v.k = "nan" -> <<"N","a","N">>
      [] OTHER -> <<"u","n","d","e","f","i","n","e","d">>

\* JavaScript truthiness
Truthy(v) ==
    CASE v.k = "str" -> v.s # << >>
      [] v.k = "num" -> v.n # 0
      [] OTHER -> FALSE

\* .replace(/[₹,\s]/g, '')
stripAmount(s) == SelectSeq(s, LAMBDA c : c \notin {Rupee, ",", " "})

RECURSIVE DigitsValue(_)
DigitsValue(ds) ==
    IF ds = << >> THEN 0
    ELSE 10 * DigitsValue(SubSeq(ds, 1, Len(ds) - 1)) + DigitVal(ds[Len(ds)])

\* length of the longest prefix of s made of digits
RECURSIVE DigitPrefixLen(_)
DigitPrefixLen(s) ==
    IF s = << >> \/ ~IsDigit(Head(s)) THEN 0 ELSE 1 + DigitPrefixLen(Tail(s))

\* parseFloat: leading white space is trimmed, then the longest prefix that is a
\* decimal literal is converted and whatever follows it is ignored; no such
\* prefix gives NaN.  The cell texts of this model hold no ".", no exponent and
\* no "Infinity", so a decimal literal is an optional sign and digits.
RECURSIVE parseFloat(_)
parseFloat(s) ==
    IF s # << >> /\ Head(s) = " " THEN parseFloat(Tail(s))
    ELSE LET signed == s # << >> /\ Head(s) \in {"-", "+"}
             body == IF signed THEN Tail(s) ELSE s
             n == DigitPrefixLen(body)
             v == DigitsValue(SubSeq(body, 1, n))
         IN  IF n = 0 THEN NaN
             ELSE IF signed /\ Head(s) = "-" THEN Num(-v) ELSE Num(v)

isNaN(v) == v.k # "num"

\* Math.abs
abs(v) == IF v.k = "num" THEN Num(IF v.n < 0 THEN -v.n ELSE v.n) ELSE NaN

----------------------------------------------------------------------------
(* Dates *)

\* String(n).padStart(2, '0')
padStart2(n) == IF n < 10 THEN <<"0">> \o DigitsOf(n) ELSE DigitsOf(n)

IsLeap(y) == (y % 4 = 0 /\ y % 100 # 0) \/ y % 400 = 0

DaysInMonth(y, m) ==
    IF m = 2 THEN (IF IsLeap(y) THEN 29 ELSE 28)
    ELSE IF m \in {4, 6, 9, 11} THEN 30 ELSE 31

\* The calendar date z days after 1970-01-01 (proleptic Gregorian), which is
\* what new Date(1900, 0, 1) followed by setDate(getDate() + k) computes.
CivilFromDays(z) ==
    LET zz == z + 719468
        era == zz \div 146097
        doe == zz - era * 146097
        yoe == (doe - doe \div 1460 + doe \div 36524 - doe \div 146096) \div 365
        doy == doe - (365 * yoe + yoe \div 4 - yoe \div 100)
        mp == (5 * doy + 2) \div 153
        d == doy - (153 * mp + 2) \div 5 + 1
        m == IF mp < 10 THEN mp + 3 ELSE mp - 9
        y == yoe + era * 400 + (IF m <= 2 THEN 1 ELSE 0)
    IN  [isNull |-> FALSE, y |-> y, m |-> m, d |-> d]

\* XLSX.SSF.parse_date_code for an integer serial: null outside 0..2958465,
\* serial 60 is the 1900-02-29 that spreadsheets invent, serial 0 is 1900-01-00,
\* any other serial counts days from 1900-01-01 = 1 (one less past serial 60).
parse_date_code(v) ==
    IF v > 2958465 \/ v < 0 THEN [isNull |-> TRUE, y |-> 0, m |-> 0, d |-> 0]
    ELSE IF v = 60 THEN [isNull |-> FALSE, y |-> 1900, m |-> 2, d |-> 29]
    ELSE IF v = 0 THEN [isNull |-> FALSE, y |-> 1900, m |-> 1, d |-> 0]
    ELSE CivilFromDays((IF v > 60 THEN v - 1 ELSE v) - 1 - 25567)

\* `${date.y}-${String(date.m).padStart(2, '0')}-${String(date.d).padStart(2, '0')}`
formatYMD(date) == DigitsOf(date.y) \o <<"-">> \o padStart2(date.m) \o <<"-">> \o padStart2(date.d)

\* s has the form YYYY-MM-DD and names a day of the calendar
isISODate(s) ==
    /\ Len(s) = 10
    /\ s[5] = "-" /\ s[8] = "-"
    /\ \A i \in {1, 2, 3, 4, 6, 7, 9, 10} : IsDigit(s[i])
    /\ LET y == DigitsValue(SubSeq(s, 1, 4))
           m == DigitsValue(SubSeq(s, 6, 7))
           d == DigitsValue(SubSeq(s, 9, 10))
       IN  m \in 1..12 /\ d \in 1..DaysInMonth(y, m)

\* the positions of the slashes of s
SlashesOf(s) == { i \in 1..Len(s) : s[i] = "/" }

\* the parts of a text M/D/YYYY, as numbers
slashParts(s) ==
    LET a == CHOOSE i \in SlashesOf(s) : \A j \in SlashesOf(s) : i <= j
        b == CHOOSE i \in SlashesOf(s) : \A j \in SlashesOf(s) : i >= j
    IN  [ m |-> DigitsValue(SubSeq(s, 1, a - 1)),
          d |-> DigitsValue(SubSeq(s, a + 1, b - 1)),
          y |-> DigitsValue(SubSeq(s, b + 1, Len(s))) ]

\* s has the form M/D/YYYY and names a day of the calendar
isSlashDate(s) ==
    /\ Cardinality(SlashesOf(s)) = 2
    /\ \A i \in 1..Len(s) : IsDigit(s[i]) \/ s[i] = "/"
    /\ LET a == CHOOSE i \in SlashesOf(s) : \A j \in SlashesOf(s) : i <= j
           b == CHOOSE i \in SlashesOf(s) : \A j \in SlashesOf(s) : i >= j
       IN  /\ a \in 2..3 /\ b - a \in 2..3 /\ Len(s) - b = 4
           /\ slashParts(s).m \in 1..12
           /\ slashParts(s).d \in 1..DaysInMonth(slashParts(s).y, slashParts(s).m)

\* !isNaN(new Date(s).getTime()).  The date texts of this model have the form
\* YYYY-MM-DD, which new Date reads as UTC midnight of that day, or the form
\* M/D/YYYY, which it reads as midnight of that day in the browser's time
\* zone, or hold no date at all.
dateParses(s) == isISODate(s) \/ isSlashDate(s)

\* the day before a day of the calendar
dayBefore(date) ==
    IF date.d > 1 THEN [date EXCEPT !.d = date.d - 1]
    ELSE IF date.m > 1
    THEN [date EXCEPT !.m = date.m - 1, !.d = DaysInMonth(date.y, date.m - 1)]
    ELSE [date EXCEPT !.y = date.y - 1, !.m = 12, !.d = 31]

\* the UTC day of local midnight of a date in a zone `zone` minutes east of
\* UTC: the day before, east of Greenwich
utcDayOfLocalMidnight(date, zone) == IF zone > 0 THEN dayBefore(date) ELSE date

\* new Date(s).toISOString().split('T')[0] for a text that parses
toISODate(s) ==
    IF isISODate(s) THEN s
    ELSE LET p == slashParts(s)
         IN  formatYMD(utcDayOfLocalMidnight([isNull |-> FALSE, y |-> p.y, m |-> p.m, d |-> p.d], tz))

----------------------------------------------------------------------------
(* Header resolution *)

\* A row is a sequence of [key, val] in column order; Object.keys(row) lists
\* the keys in that order.
ObjectKeys(row) == [i \in 1..Len(row) |-> row[i].key]

matchesAny(key, toks) ==
    \E j \in 1..Len(toks) : includes(toLowerCase(key), toks[j])

\* the header whose first token, in the order of toks, some header contains
findKeyByTokenPriority(row, toks) ==
    LET ks == ObjectKeys(row)
        has(j) == \E i \in 1..Len(ks) : includes(toLowerCase(ks[i]), toks[j])
    IN  IF \E j \in 1..Len(toks) : has(j)
        THEN LET j == CHOOSE j \in 1..Len(toks) : has(j) /\ \A h \in 1..(j - 1) : ~has(h)
             IN  CHOOSE i \in 1..Len(ks) :
                    /\ includes(toLowerCase(ks[i]), toks[j])
                    /\ \A h \in 1..(i - 1) : ~includes(toLowerCase(ks[h]), toks[j])
        ELSE 0

\* Object.keys(row).find(key => key.toLowerCase().includes(t1) || ...): the
\* position of the first key containing any of the tokens, 0 for undefined
findKey(row, toks) ==
    LET ks == ObjectKeys(row)
    IN  IF \E i \in 1..Len(ks) : matchesAny(ks[i], toks)
        THEN CHOOSE i \in 1..Len(ks) :
                /\ matchesAny(ks[i], toks)
                /\ \A h \in 1..(i - 1) : ~matchesAny(ks[h], toks)
        ELSE 0

dateTokens == << <<"d","a","t","e">> >>
descTokens == << <<"d","e","s","c","r","i","p","t","i","o","n">>, <<"d","e","t","a","i","l","s">>, <<"p","a","r","t","i","c","u","l","a","r","s">>, <<"n","a","r","r","a","t","i","o","n">> >>
categoryTokens == << <<"c","a","t","e","g","o","r","y">> >>
amountTokens == << <<"a","m","o","u","n","t">>, <<"d","e","b","i","t">>, <<"c","r","e","d","i","t">> >>
typeTokens == << <<"t","y","p","e">> >>
sourceTokens == << <<"s","o","u","r","c","e">>, <<"a","c","c","o","u","n","t">> >>

emiNameTokens == << <<"n","a","m","e">>, <<"l","o","a","n">>, <<"e","m","i">> >>
emiAmountTokens == << <<"a","m","o","u","n","t">>, <<"e","m","i">> >>
dueDateTokens == << <<"d","u","e">>, <<"d","a","t","e">>, <<"e","n","d">> >>
totalTokens == << <<"t","o","t","a","l">> >>
paidTokens == << <<"p","a","i","d">> >>

goalNameTokens == << <<"n","a","m","e">>, <<"g","o","a","l">> >>
targetTokens == << <<"t","a","r","g","e","t">>, <<"g","o","a","l">> >>
currentTokens == << <<"c","u","r","r","e","n","t">>, <<"s","a","v","e","d">> >>
deadlineTokens == << <<"d","e","a","d","l","i","n","e">>, <<"d","a","t","e">>, <<"t","a","r","g","e","t"," ","d","a","t","e">> >>

Income == <<"I","n","c","o","m","e">>
Expense == <<"E","x","p","e","n","s","e">>
Uncategorized == <<"U","n","c","a","t","e","g","o","r","i","z","e","d">>

\* a text that new Date cannot parse is blanked
dateStrOfStrict(cell) ==
    IF cell.k = "num"
    THEN LET date == parse_date_code(cell.n)
         IN  IF date.isNull THEN [throws |-> TRUE, v |-> Undefined]
             ELSE [throws |-> FALSE, v |-> Str(formatYMD(date))]
    ELSE IF Truthy(cell) /\ dateParses(cell.s)
    THEN [throws |-> FALSE, v |-> Str(toISODate(cell.s))]
    ELSE [throws |-> FALSE, v |-> Str(<< >>)]

\* The "Parse date" block of the three normalizers: a number is a date serial
\* (a serial parse_date_code answers null for makes date.y throw a TypeError);
\* a truthy text that new Date parses is replaced by the UTC day of the
\* instant it names; any other value is left as it is.
dateStrOf(cell) ==
    IF cell.k = "num"
    THEN LET date == parse_date_code(cell.n)
         IN  IF date.isNull THEN [throws |-> TRUE, v |-> Undefined]
             ELSE [throws |-> FALSE, v |-> Str(formatYMD(date))]
    ELSE IF Truthy(cell) /\ dateParses(cell.s)
    THEN [throws |-> FALSE, v |-> Str(toISODate(cell.s))]
    ELSE [throws |-> FALSE, v |-> cell]

----------------------------------------------------------------------------
(* parseTransactionsSheet: one iteration of the loop over jsonData *)

transactionKeys(row) ==
    [ date     |-> findKey(row, dateTokens),
      desc     |-> findKey(row, descTokens),
      category |-> findKey(row, categoryTokens),
      amount   |-> findKey(row, amountTokens),
      type     |-> findKey(row, typeTokens),
      source   |-> findKey(row, sourceTokens) ]

\* Income for a positive amount only
typeByPositive(amount) == IF amount.n > 0 THEN Income ELSE Expense

\* transactionType = amount < 0 ? 'Expense' : 'Income'
typeBySign(amount) == IF amount.n < 0 THEN Expense ELSE Income

\* "Determine transaction type"
transactionTypeOf(row, k, amount) ==
    IF k.type # 0 /\ Truthy(row[k.type].val)
    THEN String(row[k.type].val)
    ELSE typeBySign(amount)

\* amount: Math.abs(amount)
amountMagnitude(amount) == abs(amount)

\* the default also for an empty category cell
categoryOrDefault(row, k) ==
    IF k.category # 0 /\ Truthy(row[k.category].val)
    THEN Str(String(row[k.category].val))
    ELSE Str(Uncategorized)

\* category: categoryKey ? String(row[categoryKey]) : 'Uncategorized'
categoryOf(row, k) ==
    IF k.category # 0 THEN Str(String(row[k.category].val)) ELSE Str(Uncategorized)

\* tag: "missing" (continue at the required-field check), "throws" (date.y of
\* null), "invalid" (continue at isNaN(amount)), "emit" (push); emitted holds
\* the pushed record, if any.
parseTransactionsRow(row) ==
    LET k == transactionKeys(row)
    IN  IF k.date = 0 \/ k.desc = 0 \/ k.amount = 0
        THEN [tag |-> "missing", emitted |-> << >>]
        ELSE LET dateStr == dateStrOf(row[k.date].val)
                 amount == parseFloat(stripAmount(String(row[k.amount].val)))
             IN  IF dateStr.throws THEN [tag |-> "throws", emitted |-> << >>]
                 ELSE IF isNaN(amount) THEN [tag |-> "invalid", emitted |-> << >>]
                 ELSE [tag |-> "emit",
                       emitted |-> << [
                          date        |-> dateStr.v,
                          description |-> Str(String(row[k.desc].val)),
                          category    |-> categoryOf(row, k),
                          amount      |-> amountMagnitude(amount),
                          type        |-> Str(transactionTypeOf(row, k, amount)),
                          source      |-> IF k.source # 0
                                          THEN Str(String(row[k.source].val))
                                          ELSE Undefined ] >> ]

\* the missingFields.add calls of one iteration
missingOf(row) ==
    LET k == transactionKeys(row)
    IN  (IF k.date = 0 THEN {"Date"} ELSE {})
        \cup (IF k.desc = 0 THEN {"Description"} ELSE {})
        \cup (IF k.amount = 0 THEN {"Amount"} ELSE {})

----------------------------------------------------------------------------
(* parseEMISheet: one iteration *)

emiKeys(row) ==
    [ name    |-> findKey(row, emiNameTokens),
      amount  |-> findKey(row, emiAmountTokens),
      dueDate |-> findKey(row, dueDateTokens),
      total   |-> findKey(row, totalTokens),
      paid    |-> findKey(row, paidTokens) ]

parseEMIRow(row) ==
    LET k == emiKeys(row)
    IN  IF k.name = 0 \/ k.amount = 0 \/ k.dueDate = 0
        THEN [tag |-> "missing", emitted |-> << >>]
        ELSE LET dateStr == dateStrOf(row[k.dueDate].val)
                 amount == parseFloat(stripAmount(String(row[k.amount].val)))
             IN  IF dateStr.throws THEN [tag |-> "throws", emitted |-> << >>]
                 ELSE IF isNaN(amount) THEN [tag |-> "invalid", emitted |-> << >>]
                 ELSE [tag |-> "emit",
                       emitted |-> << [
                          name        |-> Str(String(row[k.name].val)),
                          amount      |-> amount,
                          dueDate     |-> dateStr.v,
                          totalAmount |-> IF k.total # 0
                                          THEN parseFloat(stripAmount(String(row[k.total].val)))
                                          ELSE Undefined,
                          paid        |-> IF k.paid # 0
                                          THEN parseFloat(stripAmount(String(row[k.paid].val)))
                                          ELSE Num(0) ] >> ]

----------------------------------------------------------------------------
(* parseSavingsSheet: one iteration *)

\* the target is looked for among the headers other than the name's
savingsKeysDistinct(row) ==
    LET n == findKey(row, goalNameTokens)
        M == { i \in 1..Len(row) : i # n /\ matchesAny(row[i].key, targetTokens) }
    IN  [ name     |-> n,
          target   |-> IF M = {} THEN 0 ELSE CHOOSE i \in M : \A h \in M : i <= h,
          current  |-> findKey(row, currentTokens),
          deadline |-> findKey(row, deadlineTokens) ]

savingsKeys(row) ==
    [ name     |-> findKey(row, goalNameTokens),
      target   |-> findKey(row, targetTokens),
      current  |-> findKey(row, currentTokens),
      deadline |-> findKey(row, deadlineTokens) ]

\* the current amount capped at the target
goalCurrentClamped(target, current) ==
    IF target.k = "num" /\ current.k = "num" /\ current.n > target.n THEN target ELSE current

\* currentAmount: current
goalCurrent(target, current) == current

parseSavingsRow(row) ==
    LET k == savingsKeys(row)
    IN  IF k.name = 0 \/ k.target = 0 \/ k.deadline = 0
        THEN [tag |-> "missing", emitted |-> << >>]
        ELSE LET dateStr == dateStrOf(row[k.deadline].val)
                 target == parseFloat(stripAmount(String(row[k.target].val)))
                 current == IF k.current # 0
                            THEN parseFloat(stripAmount(String(row[k.current].val)))
                            ELSE Num(0)
             IN  IF dateStr.throws THEN [tag |-> "throws", emitted |-> << >>]
                 ELSE IF isNaN(target) THEN [tag |-> "invalid", emitted |-> << >>]
                 ELSE [tag |-> "emit",
                       emitted |-> << [
                          name          |-> Str(String(row[k.name].val)),
                          targetAmount  |-> target,
                          currentAmount |-> goalCurrent(target, current),
                          deadline      |-> dateStr.v ] >> ]

----------------------------------------------------------------------------
(* The workbooks the decoder hands over *)

MaxSheets == 2
MaxRows == 2

Cell(key, val) == [key |-> key, val |-> val]

isoDay == Str(<<"2","0","2","3","-","0","3","-","1","5">>)
rent == Str(<<"R","e","n","t">>)

\* rows met in Transactions sheets
TxPlain == << Cell(<<"D","a","t","e">>, Num(45000)), Cell(<<"D","e","s","c","r","i","p","t","i","o","n">>, rent), Cell(<<"A","m","o","u","n","t">>, Str(<<Rupee>> \o <<" ","1","5",",","0","0","0">>)) >>
TxNegative == << Cell(<<"D","a","t","e">>, isoDay), Cell(<<"D","e","s","c","r","i","p","t","i","o","n">>, rent), Cell(<<"A","m","o","u","n","t">>, Str(<<"-","1","5",",","0","0","0">>)) >>
TxNotANumber == << Cell(<<"D","a","t","e">>, isoDay), Cell(<<"D","e","s","c","r","i","p","t","i","o","n">>, rent), Cell(<<"A","m","o","u","n","t">>, Str(<<"N","/","A">>)) >>
TxDigitsThenText == << Cell(<<"D","a","t","e">>, isoDay), Cell(<<"D","e","s","c","r","i","p","t","i","o","n">>, rent), Cell(<<"A","m","o","u","n","t">>, Str(<<"1","2","a","b","c">>)) >>
TxNoDate == << Cell(<<"D","e","s","c","r","i","p","t","i","o","n">>, rent), Cell(<<"A","m","o","u","n","t">>, Num(500)) >>
TxEmptyCells == << Cell(<<"D","a","t","e">>, Str(<< >>)), Cell(<<"D","e","s","c","r","i","p","t","i","o","n">>, Str(<< >>)), Cell(<<"A","m","o","u","n","t">>, Num(500)) >>
TxEmptyAmount == << Cell(<<"D","a","t","e">>, isoDay), Cell(<<"D","e","s","c","r","i","p","t","i","o","n">>, rent), Cell(<<"A","m","o","u","n","t">>, Str(<< >>)) >>
TxTypedLower == << Cell(<<"D","a","t","e">>, Str(<<"s","o","o","n">>)), Cell(<<"D","e","s","c","r","i","p","t","i","o","n">>, rent), Cell(<<"A","m","o","u","n","t">>, Num(-200)), Cell(<<"T","y","p","e">>, Str(<<"i","n","c","o","m","e">>)) >>
TxTypeZero == << Cell(<<"D","a","t","e">>, isoDay), Cell(<<"D","e","s","c","r","i","p","t","i","o","n">>, rent), Cell(<<"A","m","o","u","n","t">>, Num(-200)), Cell(<<"T","y","p","e">>, Num(0)) >>
TxTypeEmpty == << Cell(<<"D","a","t","e">>, isoDay), Cell(<<"D","e","s","c","r","i","p","t","i","o","n">>, rent), Cell(<<"A","m","o","u","n","t">>, Num(0)), Cell(<<"T","y","p","e">>, Str(<< >>)) >>
TxDebitFirst == << Cell(<<"D","a","t","e">>, isoDay), Cell(<<"D","e","s","c","r","i","p","t","i","o","n">>, rent), Cell(<<"D","e","b","i","t">>, Num(40)), Cell(<<"A","m","o","u","n","t">>, Num(70)) >>
TxBadSerial == << Cell(<<"D","a","t","e">>, Num(-1)), Cell(<<"D","e","s","c","r","i","p","t","i","o","n">>, rent), Cell(<<"A","m","o","u","n","t">>, Num(5)) >>
TxFull == << Cell(<<"T","x","n"," ","D","a","t","e">>, Num(60)), Cell(<<"N","a","r","r","a","t","i","o","n">>, Str(<<"F","e","e">>)), Cell(<<"C","a","t","e","g","o","r","y">>, Str(<<"F","o","o","d">>)),
             Cell(<<"C","r","e","d","i","t">>, Str(<<"+","7">>)), Cell(<<"T","x","n"," ","T","y","p","e">>, Str(<<"T","r","a","n","s","f","e","r">>)), Cell(<<"A","c","c","o","u","n","t">>, Str(<<"H","D","F","C">>)) >>

TxEmptyCategory == << Cell(<<"D","a","t","e">>, isoDay), Cell(<<"D","e","s","c","r","i","p","t","i","o","n">>, rent), Cell(<<"C","a","t","e","g","o","r","y">>, Str(<< >>)), Cell(<<"A","m","o","u","n","t">>, Num(500)), Cell(<<"S","o","u","r","c","e">>, Str(<< >>)) >>
TxSlashDate == << Cell(<<"D","a","t","e">>, Str(<<"3","/","1","/","2","0","2","3">>)), Cell(<<"D","e","s","c","r","i","p","t","i","o","n">>, rent), Cell(<<"A","m","o","u","n","t">>, Num(500)) >>

TxRows == { TxPlain, TxNegative, TxNotANumber, TxDigitsThenText, TxNoDate, TxEmptyCells, TxEmptyAmount,
            TxTypedLower, TxTypeZero, TxTypeEmpty, TxDebitFirst, TxBadSerial, TxFull,
            TxEmptyCategory, TxSlashDate }

\* rows met in Installments sheets
EmiPlain == << Cell(<<"N","a","m","e">>, Str(<<"C","a","r">>)), Cell(<<"A","m","o","u","n","t">>, Str(<<"5",",","0","0","0">>)), Cell(<<"D","u","e"," ","D","a","t","e">>, Str(<<"2","0","2","4","-","0","1","-","0","5">>)) >>
EmiNotANumber == << Cell(<<"N","a","m","e">>, Str(<<"C","a","r">>)), Cell(<<"A","m","o","u","n","t">>, Str(<<"N","/","A">>)), Cell(<<"D","u","e"," ","D","a","t","e">>, Str(<<"2","0","2","4","-","0","1","-","0","5">>)) >>
EmiDigitsThenText == << Cell(<<"N","a","m","e">>, Str(<<"C","a","r">>)), Cell(<<"A","m","o","u","n","t">>, Str(<<"1","2","a","b","c">>)), Cell(<<"D","u","e"," ","D","a","t","e">>, Num(45000)) >>
EmiStartFirst == << Cell(<<"N","a","m","e">>, Str(<<"H","o","m","e">>)), Cell(<<"A","m","o","u","n","t">>, Num(900)),
                    Cell(<<"S","t","a","r","t"," ","D","a","t","e">>, Str(<<"2","0","2","3","-","0","1","-","0","1">>)), Cell(<<"D","u","e"," ","D","a","t","e">>, Str(<<"2","0","2","4","-","0","1","-","0","5">>)) >>
EmiNoDue == << Cell(<<"N","a","m","e">>, Str(<<"C","a","r">>)), Cell(<<"A","m","o","u","n","t">>, Num(900)) >>
EmiTotals == << Cell(<<"L","o","a","n">>, Str(<<"B","i","k","e">>)), Cell(<<"E","M","I">>, Num(-300)), Cell(<<"E","n","d">>, Str(<<"s","o","o","n">>)),
                Cell(<<"T","o","t","a","l">>, Str(<<"9",",","0","0","0">>)), Cell(<<"P","a","i","d">>, Str(<<"N","/","A">>)) >>

EmiRows == { EmiPlain, EmiNotANumber, EmiDigitsThenText, EmiStartFirst, EmiNoDue, EmiTotals }

\* rows met in SavingsGoals sheets
GoalPlain == << Cell(<<"N","a","m","e">>, Str(<<"T","r","i","p">>)), Cell(<<"T","a","r","g","e","t">>, Str(<<"5","0",",","0","0","0">>)), Cell(<<"D","e","a","d","l","i","n","e">>, Str(<<"2","0","2","5","-","1","2","-","3","1">>)) >>
GoalNotANumber == << Cell(<<"N","a","m","e">>, Str(<<"T","r","i","p">>)), Cell(<<"T","a","r","g","e","t">>, Str(<<"N","/","A">>)), Cell(<<"D","e","a","d","l","i","n","e">>, Str(<<"2","0","2","5","-","1","2","-","3","1">>)) >>
GoalDigitsThenText == << Cell(<<"N","a","m","e">>, Str(<<"T","r","i","p">>)), Cell(<<"T","a","r","g","e","t">>, Str(<<"1","2","a","b","c">>)), Cell(<<"D","e","a","d","l","i","n","e">>, Num(45000)) >>
GoalSaved == << Cell(<<"N","a","m","e">>, Str(<<"F","u","n","d">>)), Cell(<<"T","a","r","g","e","t">>, Num(100)), Cell(<<"S","a","v","e","d">>, Num(130)), Cell(<<"D","e","a","d","l","i","n","e">>, Str(<<"s","o","o","n">>)) >>
GoalNoDeadline == << Cell(<<"N","a","m","e">>, Str(<<"T","r","i","p">>)), Cell(<<"T","a","r","g","e","t">>, Num(100)) >>

GoalNegative == << Cell(<<"N","a","m","e">>, Str(<<"F","u","n","d">>)), Cell(<<"T","a","r","g","e","t">>, Num(-100)), Cell(<<"C","u","r","r","e","n","t">>, Str(<<"N","/","A">>)), Cell(<<"D","e","a","d","l","i","n","e">>, isoDay) >>
GoalOnlyText == << Cell(<<"G","o","a","l">>, Str(<<"T","r","i","p">>)), Cell(<<"D","e","a","d","l","i","n","e">>, Str(<<"2","0","2","5","-","1","2","-","3","1">>)) >>
GoalOnlyNumber == << Cell(<<"G","o","a","l">>, Str(<<"5","0","0","0">>)), Cell(<<"D","e","a","d","l","i","n","e">>, Str(<<"2","0","2","5","-","1","2","-","3","1">>)) >>

GoalRows == { GoalPlain, GoalNotANumber, GoalDigitsThenText, GoalSaved, GoalNoDeadline,
              GoalNegative, GoalOnlyText, GoalOnlyNumber }

SeqsUpTo(S, n) == UNION { [1..k -> S] : k \in 1..n }

\* one sheet of one role, every sequence of up to MaxRows of that role's rows
RowWorkbooks ==
    { << [name |-> <<"Q","1">>, rows |-> rs] >> : rs \in SeqsUpTo(TxRows, MaxRows) }
    \cup { << [name |-> <<"E","M","I"," ","S","c","h","e","d","u","l","e">>, rows |-> rs] >> : rs \in SeqsUpTo(EmiRows, MaxRows) }
    \cup { << [name |-> <<"S","a","v","i","n","g","s">>, rows |-> rs] >> : rs \in SeqsUpTo(GoalRows, MaxRows) }

\* up to MaxSheets sheets with different names, each with one of a few row lists
SheetNames == { <<"Q","1">>, <<"J","a","n">>, <<"E","M","I"," ","S","c","h","e","d","u","l","e">>, <<"L","o","a","n"," ","G","o","a","l","s">>, <<"S","a","v","i","n","g","s">>, <<"M","y"," ","G","o","a","l","s">> }
RowLists == { << >>, <<TxPlain>>, <<EmiPlain, EmiNotANumber>>, <<GoalPlain>> }
SheetWorkbooks ==
    { w \in SeqsUpTo([name : SheetNames, rows : RowLists], MaxSheets) :
        \A i, j \in 1..Len(w) : i # j => w[i].name # w[j].name }

\* ten data rows, the fourth with the amount "N/A"
TenRowWorkbook ==
    << [name |-> <<"Q","1">>,
        rows |-> << TxPlain, TxNegative, TxPlain, TxNotANumber, TxPlain,
                    TxNegative, TxPlain, TxPlain, TxNegative, TxPlain >>] >>

\* the last one is a workbook in which the decoder found no sheet
Workbooks == RowWorkbooks \cup SheetWorkbooks \cup {TenRowWorkbook} \cup { << >> }

----------------------------------------------------------------------------
(* parseExcelFile *)

\* the two name tests in the other order
classifySavingsFirst(name) ==
    LET sheetType == toLowerCase(name)
    IN  IF includes(sheetType, <<"s","a","v","i","n","g">>) \/ includes(sheetType, <<"g","o","a","l">>) THEN "savingsGoals"
        ELSE IF includes(sheetType, <<"e","m","i">>) \/ includes(sheetType, <<"l","o","a","n">>) THEN "emis"
        ELSE "transactions"

\* the if / else-if / else over sheetName.toLowerCase()
classify(name) ==
    LET sheetType == toLowerCase(name)
    IN  IF includes(sheetType, <<"e","m","i">>) \/ includes(sheetType, <<"l","o","a","n">>) THEN "emis"
        ELSE IF includes(sheetType, <<"s","a","v","i","n","g">>) \/ includes(sheetType, <<"g","o","a","l">>)
        THEN "savingsGoals"
        ELSE "transactions"

\* a skipped row empties the array
loopStepDropsOnSkip(arr, r) == IF r.tag = "emit" THEN arr \o r.emitted ELSE << >>

\* what one iteration leaves in the normalizer's array: push on "emit", and
\* continue (the array as it was) on a skipped row
loopStep(arr, r) == arr \o r.emitted

\* result.transactions.push(...parseTransactionsSheet(jsonData, availableColumns))
storeTransactions(res, arr) == [res EXCEPT !.transactions = @ \o arr]

\* result.emis = parseEMISheet(jsonData)
storeEMIs(res, arr) == [res EXCEPT !.emis = arr]

\* result.savingsGoals = parseSavingsSheet(jsonData)
storeSavings(res, arr) == [res EXCEPT !.savingsGoals = arr]

EmptyResult == [transactions |-> << >>, emis |-> << >>, savingsGoals |-> << >>]
NoKeys == [none |-> 0]

Sheet == workbook[si]
Row == workbook[si].rows[ri]

\* if (jsonData.length === 0) return;
SkipEmptySheet ==
    /\ pc = "sheet" /\ si <= Len(workbook)
    /\ Sheet.rows = << >>
    /\ si' = si + 1
    /\ UNCHANGED <<workbook, pc, role, ri, acc, keys, result, missingFields, warnings, parseError, others>>

\* the branch on the sheet's name, and the entry of the normalizer it calls
ClassifySheet ==
    /\ pc = "sheet" /\ si <= Len(workbook)
    /\ Sheet.rows # << >>
    /\ role' = classify(Sheet.name)
    /\ pc' = "rows"
    /\ ri' = 1
    /\ acc' = << >>
    /\ missingFields' = IF classify(Sheet.name) = "transactions" THEN {} ELSE missingFields
    /\ UNCHANGED <<workbook, si, keys, result, warnings, parseError, others>>

RowStep(r, ks) ==
    /\ keys' = ks
    /\ IF r.tag = "throws"
       THEN /\ pc' = "rejected"
            /\ UNCHANGED <<ri, acc>>
       ELSE /\ acc' = loopStep(acc, r)
            /\ ri' = ri + 1
            /\ pc' = pc
    /\ UNCHANGED <<workbook, si, role, result, parseError, others>>

TransactionsRow ==
    /\ pc = "rows" /\ role = "transactions" /\ ri <= Len(Sheet.rows)
    /\ RowStep(parseTransactionsRow(Row), transactionKeys(Row))
    /\ missingFields' = missingFields \cup missingOf(Row)
    /\ warnings' = IF parseTransactionsRow(Row).tag = "invalid"
                   THEN Append(warnings, (ri - 1) + 2)
                   ELSE warnings

EMIRow ==
    /\ pc = "rows" /\ role = "emis" /\ ri <= Len(Sheet.rows)
    /\ RowStep(parseEMIRow(Row), emiKeys(Row))
    /\ UNCHANGED <<missingFields, warnings>>

SavingsRow ==
    /\ pc = "rows" /\ role = "savingsGoals" /\ ri <= Len(Sheet.rows)
    /\ RowStep(parseSavingsRow(Row), savingsKeys(Row))
    /\ UNCHANGED <<missingFields, warnings>>

\* the normalizer returns its array and the callback stores it
SheetDone(res) ==
    /\ pc = "rows" /\ ri > Len(Sheet.rows)
    /\ result' = res
    /\ si' = si + 1
    /\ pc' = "sheet"
    /\ ri' = 0
    /\ acc' = << >>
    /\ UNCHANGED <<workbook, role, keys, missingFields, warnings, parseError, others>>

ReturnTransactions == role = "transactions" /\ SheetDone(storeTransactions(result, acc))
ReturnEMIs == role = "emis" /\ SheetDone(storeEMIs(result, acc))
ReturnSavings == role = "savingsGoals" /\ SheetDone(storeSavings(result, acc))

\* resolve(result)
Resolve ==
    /\ pc = "sheet" /\ si > Len(workbook)
    /\ pc' = "done"
    /\ UNCHANGED <<workbook, si, role, ri, acc, keys, result, missingFields, warnings, parseError, others>>

----------------------------------------------------------------------------
(* handleFileUpload, from the await of parseExcelFile to the end of the parse *)

NoValidDataMessage == "No valid data found in file. Please check the format."

\* `Failed to parse Excel file: ${error.message}`, whatever the TypeError says
ParseFailedMessage == "Failed to parse Excel file: TypeError"

\* the promise resolved: throw for three empty collections (caught below in
\* the same handler: setParseError, toast.error), otherwise go on to persist
CheckParsed ==
    /\ pc = "done"
    /\ IF result.transactions = << >> /\ result.emis = << >> /\ result.savingsGoals = << >>
       THEN pc' = "failed" /\ parseError' = NoValidDataMessage
       ELSE pc' = "parsed" /\ parseError' = parseError
    /\ UNCHANGED <<workbook, si, role, ri, acc, keys, result, missingFields, warnings, others>>

\* the promise rejected: the catch block of handleFileUpload
CatchRejected ==
    /\ pc = "rejected"
    /\ pc' = "failed"
    /\ parseError' = ParseFailedMessage
    /\ UNCHANGED <<workbook, si, role, ri, acc, keys, result, missingFields, warnings, others>>

Next ==
    \/ SkipEmptySheet
    \/ ClassifySheet
    \/ TransactionsRow
    \/ EMIRow
    \/ SavingsRow
    \/ ReturnTransactions
    \/ ReturnEMIs
    \/ ReturnSavings
    \/ Resolve
    \/ CheckParsed
    \/ CatchRejected

\* the zones the browser may be in: UTC and India (UTC+5:30)
TimeZones == {0, 330}

----------------------------------------------------------------------------
(* The server's store and its callers *)

MaxUploads == 2

\* the callers of the server: uploads running at the same time, or one caller
\* making one call after the other
Uploads == 1..MaxUploads

\* user.id of the users supabase.auth knows
Users == {"u1", "u2"}

Prefixes == {"user", "transactions", "emis", "savings", "files", "activeFile"}

\* `${prefix}:${id}`
Key(prefix, id) == <<prefix, id>>

Keys == { Key(p, u) : p \in Prefixes, u \in Users }

\* nothing stored yet
EmptyStore == [k \in Keys |-> << >>]

\* a caller that does nothing
Off == [at |-> "off", file |-> << >>, auth |-> << >>, data |-> EmptyResult, calls |-> << >>,
        i |-> 0, fileId |-> << >>, error |-> "null", shown |-> << >>]

ServerIdle ==
    /\ kv = EmptyStore
    /\ nextId = 1
    /\ up = [c \in Uploads |-> Off]
    /\ req = [c \in Uploads |-> << >>]
    /\ resp = [c \in Uploads |-> << >>]

Init ==
    /\ workbook \in Workbooks
    /\ tz \in TimeZones
    /\ previous = << >>
    /\ ServerIdle
    /\ pc = "sheet"
    /\ si = 1
    /\ role = "none"
    /\ ri = 0
    /\ acc = << >>
    /\ keys = NoKeys
    /\ result = EmptyResult
    /\ missingFields = {}
    /\ warnings = << >>
    /\ parseError = "null"

Spec == Init /\ [][Next]_vars

\* The same file is chosen again, in a browser whose zone may be another one:
\* handleFileUpload starts over and parseExcelFile runs on the same workbook.
SecondRun ==
    /\ pc \in {"parsed", "failed"} /\ previous = << >>
    /\ previous' = << [result |-> result, parseError |-> parseError] >>
    /\ tz' \in TimeZones
    /\ pc' = "sheet" /\ si' = 1 /\ role' = "none" /\ ri' = 0 /\ acc' = << >>
    /\ keys' = NoKeys /\ result' = EmptyResult /\ parseError' = "null"
    /\ UNCHANGED <<workbook, missingFields, warnings, serverVars>>

TwoRunsNext == Next \/ SecondRun

TwoRunsSpec == Init /\ [][TwoRunsNext]_vars

----------------------------------------------------------------------------
(* Properties *)

\* the row the normalizer has just finished (pc = "rows" and ri > 1)
PrevRow == Sheet.rows[ri - 1]
AfterRow == pc = "rows" /\ ri > 1

RowOutcome(row, r) ==
    CASE r = "transactions" -> parseTransactionsRow(row)
      [] r = "emis" -> parseEMIRow(row)
      [] OTHER -> parseSavingsRow(row)

\* the records a role's normalizer emits for rows, each row taken alone
RECURSIVE EmittedBy(_, _)
EmittedBy(rows, r) ==
    IF rows = << >> THEN << >>
    ELSE EmittedBy(SubSeq(rows, 1, Len(rows) - 1), r) \o RowOutcome(rows[Len(rows)], r).emitted

\* the records of the sheets 1..n classified into role r, in sheet order
RECURSIVE RecordsOfRole(_, _)
RecordsOfRole(n, r) ==
    IF n = 0 THEN << >>
    ELSE RecordsOfRole(n - 1, r)
         \o (IF workbook[n].rows # << >> /\ classify(workbook[n].name) = r
             THEN EmittedBy(workbook[n].rows, r) ELSE << >>)

IsSuffix(a, b) == Len(a) <= Len(b) /\ SubSeq(b, Len(b) - Len(a) + 1, Len(b)) = a

\* C1: when parseExcelFile resolves, each of the three collections holds the
\* records of every sheet of its role, in sheet order and then row order;
\* records of an earlier Installments or SavingsGoals sheet are still there
\* after a later sheet of the same role.
C1_AllSheetsAccumulated ==
    pc = "done" =>
        /\ result.transactions = RecordsOfRole(Len(workbook), "transactions")
        /\ result.emis = RecordsOfRole(Len(workbook), "emis")
        /\ result.savingsGoals = RecordsOfRole(Len(workbook), "savingsGoals")

\* sheet s is the last sheet with data rows that has its role
LastOfItsRole(s) ==
    \A t \in (s + 1)..Len(workbook) :
        workbook[t].rows = << >> \/ classify(workbook[t].name) # classify(workbook[s].name)

C3_SkipDiagnostics ==
    (pc = "rows" /\ si = 1 /\ ri > Len(Sheet.rows)) =>
        Len(acc) + Len(warnings) = Len(Sheet.rows)

hasAny(name, toks) == \E t \in toks : includes(toLowerCase(name), t)

\* the rule of the claim: emi/loan, else saving/goal, else transactions
RoleByRule(name) ==
    IF hasAny(name, { <<"e","m","i">>, <<"l","o","a","n">> }) THEN "emis"
    ELSE IF hasAny(name, { <<"s","a","v","i","n","g">>, <<"g","o","a","l">> }) THEN "savingsGoals"
    ELSE "transactions"

C5_KindIsTypeCellVerbatim ==
    (AfterRow /\ role = "transactions" /\ parseTransactionsRow(PrevRow).tag = "emit"
       /\ keys.type # 0 /\ PrevRow[keys.type].val # Str(<< >>)) =>
        acc[Len(acc)].type = Str(String(PrevRow[keys.type].val))

\* the amount cell of the row just finished, decoded
PrevAmount == parseFloat(stripAmount(String(PrevRow[keys.amount].val)))

\* C6: an emitted transaction whose row has no type header, or an empty type
\* cell, is an Expense for a negative decoded amount and an Income for a zero
\* or positive one; its amount is the absolute value, and every emitted
\* transaction has amount >= 0.
C6_KindFromSign ==
    /\ (AfterRow /\ role = "transactions" /\ parseTransactionsRow(PrevRow).tag = "emit") =>
          LET rec == acc[Len(acc)]
          IN  /\ (keys.type = 0 \/ PrevRow[keys.type].val = Str(<< >>)) =>
                    rec.type = Str(IF PrevAmount.n < 0 THEN Expense ELSE Income)
              /\ rec.amount = Num(IF PrevAmount.n < 0 THEN -PrevAmount.n ELSE PrevAmount.n)
    /\ \A i \in 1..Len(result.transactions) :
          result.transactions[i].amount.k = "num" /\ result.transactions[i].amount.n >= 0

\* untyped rows of each kind: a negative amount, and an empty type cell with amount 0
C6_Witness ==
    /\ AfterRow /\ role = "transactions" /\ ri > 2
    /\ Sheet.rows[ri - 2] = TxNegative /\ PrevRow = TxTypeEmpty
    /\ acc[Len(acc) - 1].type = Str(Expense) /\ acc[Len(acc) - 1].amount = Num(15000)
    /\ acc[Len(acc)].type = Str(Income)

\* C7: every transaction of the output has kind Income or Expense.
C7_KindIsIncomeOrExpense ==
    /\ \A i \in 1..Len(result.transactions) :
          result.transactions[i].type \in {Str(Income), Str(Expense)}
    /\ (pc = "rows" /\ role = "transactions") =>
          \A i \in 1..Len(acc) : acc[i].type \in {Str(Income), Str(Expense)}

\* a required field of row has no value: no header for it, or an empty cell
LacksRequiredValue(row) ==
    LET k == transactionKeys(row)
    IN  \/ k.date = 0 \/ k.desc = 0 \/ k.amount = 0
        \/ row[k.date].val = Str(<< >>)
        \/ row[k.desc].val = Str(<< >>)
        \/ row[k.amount].val = Str(<< >>)

\* C8: a Transactions row in which date, description or amount has no value
\* (header absent, or header present and cell empty) emits no transaction.
C8_MissingValueSkipped ==
    (AfterRow /\ role = "transactions" /\ LacksRequiredValue(PrevRow)) =>
        acc = EmittedBy(SubSeq(Sheet.rows, 1, ri - 2), role)

\* s is, in its entirety, a number: an optional sign and one or more digits
IsNumberText(s) ==
    LET body == IF s # << >> /\ Head(s) \in {"-", "+"} THEN Tail(s) ELSE s
    IN  body # << >> /\ \A i \in 1..Len(body) : IsDigit(body[i])

\* the header the role's required amount is read from (0 if none)
RequiredAmountKey(row, r) ==
    CASE r = "transactions" -> transactionKeys(row).amount
      [] r = "emis" -> emiKeys(row).amount
      [] OTHER -> savingsKeys(row).target

\* C9: in all three normalizers a row whose required amount, once the glyph,
\* the separators and the white space are removed, is not a number in its
\* entirety emits no record.
C9_PartialNumberSkipped ==
    (AfterRow /\ RequiredAmountKey(PrevRow, role) # 0
       /\ ~IsNumberText(stripAmount(String(PrevRow[RequiredAmountKey(PrevRow, role)].val)))) =>
        acc = EmittedBy(SubSeq(Sheet.rows, 1, ri - 2), role)

FirstWithAnyToken(row, toks) ==
    LET M == { i \in 1..Len(row) :
                 \E j \in 1..Len(toks) : includes(toLowerCase(row[i].key), toks[j]) }
    IN  IF M = {} THEN 0 ELSE CHOOSE i \in M : \A h \in M : i <= h

HeaderOf(row, i) == IF i = 0 THEN << >> ELSE row[i].key

\* C11: within one sheet every field is read from one header for all rows:
\* for two rows of a Transactions sheet that both have a date, a description
\* and an amount header, the headers bound to these fields carry the same
\* label, though the rows' sets of present headers differ.
C11_OneHeaderPerField ==
    (AfterRow /\ role = "transactions" /\ ri > 2) =>
        LET before == Sheet.rows[ri - 2]
            kb == transactionKeys(before)
        IN  (/\ kb.date # 0 /\ kb.desc # 0 /\ kb.amount # 0
             /\ keys.date # 0 /\ keys.desc # 0 /\ keys.amount # 0) =>
                /\ HeaderOf(before, kb.date) = HeaderOf(PrevRow, keys.date)
                /\ HeaderOf(before, kb.desc) = HeaderOf(PrevRow, keys.desc)
                /\ HeaderOf(before, kb.amount) = HeaderOf(PrevRow, keys.amount)

\* the tokens of the required fields of a role
RequiredTokens(r) ==
    CASE r = "transactions" -> { dateTokens, descTokens, amountTokens }
      [] r = "emis" -> { emiNameTokens, emiAmountTokens, dueDateTokens }
      [] OTHER -> { goalNameTokens, targetTokens, deadlineTokens }

\* a sheet with data rows none of whose headers contains any token of some
\* required field of the sheet's role
LacksRequiredHeader(sheet) ==
    /\ sheet.rows # << >>
    /\ \E toks \in RequiredTokens(classify(sheet.name)) :
          \A i \in 1..Len(sheet.rows) : findKey(sheet.rows[i], toks) = 0

\* the result of the callback of parseExcelFile over the sheets 1..n of w
RECURSIVE parseSheets(_, _)
parseSheets(w, n) ==
    IF n = 0 THEN EmptyResult
    ELSE LET res == parseSheets(w, n - 1)
             r == classify(w[n].name)
             arr == EmittedBy(w[n].rows, r)
         IN  IF w[n].rows = << >> THEN res
             ELSE CASE r = "emis" -> storeEMIs(res, arr)
                    [] r = "savingsGoals" -> storeSavings(res, arr)
                    [] OTHER -> storeTransactions(res, arr)

\* the workbook w without its sheet s
Without(w, s) == SubSeq(w, 1, s - 1) \o SubSeq(w, s + 1, Len(w))

\* C12: a sheet none of whose headers contains a token of a required field
\* contributes zero records, every row of it failing validation, and the
\* other sheets are unaffected: the workbook resolves to what it resolves to
\* without that sheet.
C12_HeaderlessSheetContributesNothing ==
    /\ (pc = "rows" /\ LacksRequiredHeader(Sheet)) =>
          /\ acc = << >>
          /\ \A i \in 1..(ri - 1) : RowOutcome(Sheet.rows[i], role).tag = "missing"
    /\ pc = "done" =>
          \A s \in 1..Len(workbook) :
              LacksRequiredHeader(workbook[s]) =>
                  result = parseSheets(Without(workbook, s), Len(workbook) - 1)

\* the required date cell of the row just normalized is text, possibly empty,
\* that new Date cannot parse
UnparsedDateText(cell) == cell.k = "str" /\ ~dateParses(cell.s)

\* C13: a Transactions row whose date cell is text that new Date cannot parse
\* and whose description and amount are valid is not skipped: it emits one
\* transaction whose date is the cell's text as it stands.
C13_UnparsedDateKept ==
    (/\ AfterRow /\ role = "transactions"
     /\ keys.date # 0 /\ keys.desc # 0 /\ keys.amount # 0
     /\ UnparsedDateText(PrevRow[keys.date].val)
     /\ ~isNaN(PrevAmount)) =>
        /\ Len(acc) = Len(EmittedBy(SubSeq(Sheet.rows, 1, ri - 2), role)) + 1
        /\ acc[Len(acc)].date = PrevRow[keys.date].val

\* the row with the date "soon" is behind the loop and its record ends the array
C13_Witness ==
    /\ AfterRow /\ role = "transactions" /\ PrevRow = TxTypedLower
    /\ acc # << >>
    /\ acc[Len(acc)].date = Str(<<"s","o","o","n">>)

\* C14: an Installments or SavingsGoals row whose due date or deadline is text
\* that cannot be parsed as a date emits no record: the array is what the rows
\* before it emitted.
C14_UnparsedDateSkipped ==
    /\ (AfterRow /\ role = "emis" /\ keys.dueDate # 0
        /\ UnparsedDateText(PrevRow[keys.dueDate].val)) =>
          acc = EmittedBy(SubSeq(Sheet.rows, 1, ri - 2), role)
    /\ (AfterRow /\ role = "savingsGoals" /\ keys.deadline # 0
        /\ UnparsedDateText(PrevRow[keys.deadline].val)) =>
          acc = EmittedBy(SubSeq(Sheet.rows, 1, ri - 2), role)

\* a number that is zero or more
NonNegative(v) == v.k = "num" /\ v.n >= 0

\* C15: every installment emitted has an amount >= 0, a totalAmount that is a
\* number >= 0 and a paid that is a number >= 0, in the normalizer's array and
\* in the resolved result.
C15_InstallmentNonNegative ==
    LET ok(e) == NonNegative(e.amount) /\ NonNegative(e.totalAmount) /\ NonNegative(e.paid)
    IN  /\ (pc = "rows" /\ role = "emis") => \A i \in 1..Len(acc) : ok(acc[i])
        /\ \A i \in 1..Len(result.emis) : ok(result.emis[i])


\* C16: every savings goal emitted has a targetAmount >= 0 and a currentAmount
\* that is a number >= 0, in the normalizer's array and in the resolved
\* result, and a currentAmount of 0 when the row has no current/saved header.
C16_GoalNonNegative ==
    LET ok(g) == NonNegative(g.targetAmount) /\ NonNegative(g.currentAmount)
    IN  /\ (pc = "rows" /\ role = "savingsGoals") => \A i \in 1..Len(acc) : ok(acc[i])
        /\ \A i \in 1..Len(result.savingsGoals) : ok(result.savingsGoals[i])
        /\ (AfterRow /\ role = "savingsGoals" /\ keys.current = 0
            /\ parseSavingsRow(PrevRow).tag = "emit") =>
              acc[Len(acc)].currentAmount = Num(0)

\* the decoded amount of cell i of the row just normalized
PrevDecoded(i) == parseFloat(stripAmount(String(PrevRow[i].val)))

\* C17: a valid SavingsGoals row whose decoded current amount exceeds its
\* decoded target is not skipped, and the goal it emits carries the decoded
\* current amount, not the target.
C17_CurrentNotClamped ==
    (/\ AfterRow /\ role = "savingsGoals"
     /\ keys.name # 0 /\ keys.target # 0 /\ keys.deadline # 0 /\ keys.current # 0
     /\ PrevDecoded(keys.target).k = "num" /\ PrevDecoded(keys.current).k = "num"
     /\ PrevDecoded(keys.current).n > PrevDecoded(keys.target).n) =>
        /\ Len(acc) = Len(EmittedBy(SubSeq(Sheet.rows, 1, ri - 2), role)) + 1
        /\ acc[Len(acc)].currentAmount = PrevDecoded(keys.current)
        /\ acc[Len(acc)].targetAmount = PrevDecoded(keys.target)

\* the goal saved beyond its target is emitted with 130 against 100
C17_Witness ==
    /\ AfterRow /\ role = "savingsGoals" /\ PrevRow = GoalSaved
    /\ acc # << >>
    /\ acc[Len(acc)].currentAmount = Num(130)
    /\ acc[Len(acc)].targetAmount = Num(100)

\* the headers of a row that contain a token of toks
HeadersWith(row, toks) == { i \in 1..Len(row) : matchesAny(row[i].key, toks) }

\* one header is the only one with a name token and the only one with a target token
SingleGoalHeader(row) ==
    /\ HeadersWith(row, goalNameTokens) = HeadersWith(row, targetTokens)
    /\ Cardinality(HeadersWith(row, goalNameTokens)) = 1

\* C18: in a SavingsGoals sheet a row whose single "goal" header is the only
\* one matching the name tokens and the target tokens emits no goal, whatever
\* its cell holds.
C18_SharedHeaderSkipped ==
    (AfterRow /\ role = "savingsGoals" /\ SingleGoalHeader(PrevRow)) =>
        acc = EmittedBy(SubSeq(Sheet.rows, 1, ri - 2), role)

\* C18 amended: the single header is bound to the name and to the target; the
\* row is skipped when the cell does not decode to a number or the row has no
\* deadline header, and otherwise emits a goal whose name is the cell's text
\* and whose targetAmount is the cell's decoded number.
C18_SharedHeaderServesBoth ==
    (AfterRow /\ role = "savingsGoals" /\ SingleGoalHeader(PrevRow)) =>
        LET h == CHOOSE i \in HeadersWith(PrevRow, goalNameTokens) : TRUE
            before == EmittedBy(SubSeq(Sheet.rows, 1, ri - 2), role)
        IN  /\ keys.name = h /\ keys.target = h
            /\ IF keys.deadline # 0 /\ ~isNaN(PrevDecoded(h))
               THEN /\ Len(acc) = Len(before) + 1
                    /\ acc[Len(acc)].name = Str(String(PrevRow[h].val))
                    /\ acc[Len(acc)].targetAmount = PrevDecoded(h)
               ELSE acc = before

\* the row with the one header Goal holding "5000" is emitted as the goal "5000"
C18_Witness ==
    /\ AfterRow /\ role = "savingsGoals" /\ PrevRow = GoalOnlyNumber
    /\ acc # << >>
    /\ acc[Len(acc)].name = Str(<<"5","0","0","0">>)
    /\ acc[Len(acc)].targetAmount = Num(5000)

\* every sheet of w has zero data rows (w may have zero sheets)
NothingAttempted(w) == \A s \in 1..Len(w) : w[s].rows = << >>

\* no row of w passes the validation of its sheet's normalizer, none throws
AllRowsFail(w) ==
    \A s \in 1..Len(w) : \A i \in 1..Len(w[s].rows) :
        RowOutcome(w[s].rows[i], classify(w[s].name)).tag \in {"missing", "invalid"}

\* C19: a workbook with at least one sheet and no valid record is resolved to
\* three empty collections, with no skip diagnostic when no sheet has a data
\* row, and no error is reported to the user of the upload.
C19_EmptyButValid ==
    (Len(workbook) >= 1 /\ AllRowsFail(workbook)) =>
        /\ pc # "rejected" /\ pc # "failed"
        /\ parseError = "null"
        /\ pc \in {"done", "parsed"} =>
              /\ result = EmptyResult
              /\ NothingAttempted(workbook) => warnings = << >>

\* what the upload shows once it has ended
Outcome == [pc |-> pc, parseError |-> parseError, result |-> result]

\* the outcome of a workbook whose rows were attempted and all failed validation
AllFailedOutcome == [pc |-> "failed", parseError |-> NoValidDataMessage, result |-> EmptyResult]

\* C20: a workbook of zero sheets, or whose sheets all have zero data rows,
\* ends in a failure that differs from the outcome of a workbook whose rows
\* were attempted and all failed validation.
C20_NothingAttemptedDistinct ==
    NothingAttempted(workbook) =>
        /\ pc # "parsed"
        /\ pc = "failed" => Outcome # AllFailedOutcome


\* C21: an emitted transaction has the category "Uncategorized" when the row
\* has no header containing "category" and the text of that header's cell
\* otherwise, empty text included; its source is absent exactly when the row
\* has no source header, and the text of that header's cell otherwise.
C21_CategoryAndSource ==
    (AfterRow /\ role = "transactions" /\ parseTransactionsRow(PrevRow).tag = "emit") =>
        LET rec == acc[Len(acc)]
            noCategory == HeadersWith(PrevRow, categoryTokens) = {}
            noSource == HeadersWith(PrevRow, sourceTokens) = {}
        IN  /\ noCategory => rec.category = Str(Uncategorized)
            /\ ~noCategory => rec.category = Str(String(PrevRow[keys.category].val))
            /\ noSource <=> rec.source = Undefined
            /\ ~noSource => rec.source = Str(String(PrevRow[keys.source].val))

\* the row with empty category and source cells keeps both as empty text
C21_Witness ==
    /\ AfterRow /\ role = "transactions" /\ PrevRow = TxEmptyCategory
    /\ acc # << >>
    /\ acc[Len(acc)].category = Str(<< >>)
    /\ acc[Len(acc)].source = Str(<< >>)

\* C22: two runs of parseExcelFile on the same decoded workbook end alike: the
\* second resolves to the collections the first resolved to, record for record
\* and field for field, or fails with the message the first failed with.
C22_SameOutputOnRerun ==
    (previous # << >> /\ pc \in {"parsed", "failed"}) =>
        /\ result = previous[1].result
        /\ parseError = previous[1].parseError

\* what the caller of parseExcelFile receives of the one sheet of a workbook:
\* the sheet's collection once resolved, nothing once rejected
Delivered ==
    IF pc = "done" THEN result[classify(workbook[1].name)] ELSE << >>

\* C24: within a sheet the outcome for a row depends on that row and the
\* sheet's role only: what the workbook of one sheet delivers is, row by row,
\* what each row emits taken alone, whatever the other rows are.
C24_RowOutcomeIndependent ==
    (Len(workbook) = 1 /\ pc \in {"done", "rejected"}) =>
        Delivered = EmittedBy(workbook[1].rows, classify(workbook[1].name))


----------------------------------------------------------------------------
(* The server (src/src/supabase/functions/server/index.tsx) *)

Null == [k |-> "null", s |-> << >>, n |-> 0]

\* String.prototype.split(' ')
RECURSIVE split(_)
split(s) ==
    IF \A i \in 1..Len(s) : s[i] # " " THEN <<s>>
    ELSE LET i == CHOOSE i \in 1..Len(s) : s[i] = " " /\ \A j \in 1..(i - 1) : s[j] # " "
         IN  <<SubSeq(s, 1, i - 1)>> \o split(SubSeq(s, i + 1, Len(s)))

\* the access tokens of live sessions, each one character of a header here
Sessions == [tok \in {<<"t1">>, <<"t2">>} |-> IF tok = <<"t1">> THEN "u1" ELSE "u2"]

\* supabase.auth.getUser(token): << >> for an error or no user
getUser(token) == IF token \in DOMAIN Sessions THEN <<Sessions[token]>> ELSE << >>

\* a caller's word for who it is, taken as it stands
trustCaller(authHeader) ==
    [error |-> "null", user |-> <<"u1">>]

\* verifyUser: the header is undefined or a text
verifyUser(authHeader) ==
    IF ~Truthy(authHeader)
    THEN [error |-> "No authorization header", user |-> << >>]
    ELSE LET parts == split(authHeader.s)
         IN  IF Len(parts) < 2 \/ parts[2] = << >>
             THEN [error |-> "No token provided", user |-> << >>]
             ELSE IF getUser(parts[2]) = << >>
             THEN [error |-> "Invalid token or user not found", user |-> << >>]
             ELSE [error |-> "null", user |-> getUser(parts[2])]

\* `Bearer ${accessToken}`
Bearer(accessToken) == Str(<<"B","e","a","r","e","r"," ">> \o accessToken)

\* c.json({ error }, status) and c.json(payload); touched is filled in by
\* Respond with the keys the handler has passed to kv.get and kv.set
Failure(status, error) == [status |-> status, error |-> error, data |-> << >>, touched |-> {}]
Success(payload) == [status |-> 200, error |-> "null", data |-> <<payload>>, touched |-> {}]

\* await kv.get(key) || []
Stored(store, key) == IF store[key] = << >> THEN << >> ELSE store[key][1]

\* `${prefix}${Date.now()}_${Math.random().toString(36).substr(2, 9)}`
NewId(prefix, n) == Str(prefix \o DigitsOf(n))

\* x || null
orNull(v) == IF Truthy(v) THEN v ELSE Null

\* x ? parseFloat(x) : 0
floatOrZero(v) == IF Truthy(v) THEN parseFloat(String(v)) ELSE Num(0)

\* body.f, undefined when the body has no such property
Field(b, f) == IF f \in DOMAIN b THEN b[f] ELSE Undefined

\* the handler of caller c's request answers, having used the keys ks since
\* its last await
Respond(c, r, ks) ==
    /\ resp' = [resp EXCEPT ![c] = <<[r EXCEPT !.touched = req[c][1].touched \cup ks]>>]
    /\ req' = [req EXCEPT ![c] = << >>]

\* the 401 of a handler whose verifyUser found no user
Unauthorized(c, v) == Respond(c, Failure(401, v.error), {}) /\ UNCHANGED <<kv, nextId>>

\* 400
BadRequest(c, error) == Respond(c, Failure(400, error), {}) /\ UNCHANGED <<kv, nextId>>

\* the handler goes on after its await kv.get(key)
Continue(c, user, key) ==
    /\ req' = [req EXCEPT ![c] = <<[@[1] EXCEPT !.phase = "read", !.user = user,
                                                 !.existing = Stored(kv, key),
                                                 !.touched = @ \cup {key}]>>]
    /\ UNCHANGED <<kv, nextId, resp>>

\* kv.set(key, value) and the answer that follows it
SetAndRespond(c, key, value, r) ==
    /\ kv' = [kv EXCEPT ![key] = <<value>>]
    /\ Respond(c, r, {key})

Handling(c, route) == req[c] # << >> /\ req[c][1].route = route

\* a request as it arrives
Request(route, auth, body) ==
    [route |-> route, auth |-> auth, body |-> body, phase |-> "received",
     user |-> << >>, existing |-> << >>, touched |-> {}]

\* POST /transactions
PostTransactions(c) ==
    /\ Handling(c, "POST /transactions")
    /\ LET r == req[c][1]
           b == r.body
           v == verifyUser(r.auth)
       IN  IF r.phase = "received"
           THEN IF v.user = << >> THEN Unauthorized(c, v)
                ELSE IF \/ ~Truthy(b.date) \/ ~Truthy(b.description) \/ ~Truthy(b.category)
                        \/ ~Truthy(b.amount) \/ ~Truthy(b.type)
                THEN BadRequest(c, "Missing required fields")
                ELSE Continue(c, v.user, Key("transactions", v.user[1]))
           ELSE LET newTransaction ==
                        [ id |-> NewId(<<"t","x","n","_">>, nextId),
                          date |-> b.date,
                          description |-> b.description,
                          category |-> b.category,
                          amount |-> parseFloat(String(b.amount)),
                          type |-> b.type,
                          source |-> orNull(b.source),
                          fileId |-> orNull(b.fileId) ]
                IN  /\ SetAndRespond(c, Key("transactions", r.user[1]),
                                     Append(r.existing, newTransaction), Success(newTransaction))
                    /\ nextId' = nextId + 1
    /\ UNCHANGED <<up, dialogVars>>

\* POST /emis
PostEmis(c) ==
    /\ Handling(c, "POST /emis")
    /\ LET r == req[c][1]
           b == r.body
           v == verifyUser(r.auth)
       IN  IF r.phase = "received"
           THEN IF v.user = << >> THEN Unauthorized(c, v)
                ELSE IF ~Truthy(b.name) \/ ~Truthy(b.amount) \/ ~Truthy(b.dueDate)
                THEN BadRequest(c, "Missing required fields")
                ELSE Continue(c, v.user, Key("emis", v.user[1]))
           ELSE LET newEmi ==
                        [ id |-> NewId(<<"e","m","i","_">>, nextId),
                          name |-> b.name,
                          amount |-> parseFloat(String(b.amount)),
                          dueDate |-> b.dueDate,
                          totalAmount |-> floatOrZero(b.totalAmount),
                          paid |-> floatOrZero(b.paid),
                          status |-> Str(<<"u","p","c","o","m","i","n","g">>),
                          fileId |-> orNull(b.fileId) ]
                IN  /\ SetAndRespond(c, Key("emis", r.user[1]), Append(r.existing, newEmi),
                                     Success(newEmi))
                    /\ nextId' = nextId + 1
    /\ UNCHANGED <<up, dialogVars>>

\* POST /savings
PostSavings(c) ==
    /\ Handling(c, "POST /savings")
    /\ LET r == req[c][1]
           b == r.body
           v == verifyUser(r.auth)
       IN  IF r.phase = "received"
           THEN IF v.user = << >> THEN Unauthorized(c, v)
                ELSE IF ~Truthy(b.name) \/ ~Truthy(b.targetAmount) \/ ~Truthy(b.deadline)
                THEN BadRequest(c, "Missing required fields")
                ELSE Continue(c, v.user, Key("savings", v.user[1]))
           ELSE LET newGoal ==
                        [ id |-> NewId(<<"g","o","a","l","_">>, nextId),
                          name |-> b.name,
                          targetAmount |-> parseFloat(String(b.targetAmount)),
                          currentAmount |-> floatOrZero(b.currentAmount),
                          deadline |-> b.deadline,
                          status |-> IF Truthy(Field(b, "status")) THEN b.status
                                     ELSE Str(<<"o","n","-","t","r","a","c","k">>),
                          fileId |-> orNull(b.fileId) ]
                IN  /\ SetAndRespond(c, Key("savings", r.user[1]), Append(r.existing, newGoal),
                                     Success(newGoal))
                    /\ nextId' = nextId + 1
    /\ UNCHANGED <<up, dialogVars>>

\* POST /files: the file record is stored, then made the active file
PostFiles(c) ==
    /\ Handling(c, "POST /files")
    /\ LET r == req[c][1]
           b == r.body
           v == verifyUser(r.auth)
       IN  CASE r.phase = "received" ->
                  IF v.user = << >> THEN Unauthorized(c, v)
                  ELSE IF ~Truthy(b.fileName) \/ ~Truthy(b.transactionCount)
                  THEN BadRequest(c, "Missing required fields")
                  ELSE Continue(c, v.user, Key("files", v.user[1]))
             [] r.phase = "read" ->
                  LET newFile == [ id |-> NewId(<<"f","i","l","e","_">>, nextId),
                                   fileName |-> b.fileName,
                                   transactionCount |-> b.transactionCount ]
                  IN  /\ kv' = [kv EXCEPT ![Key("files", r.user[1])] = <<Append(r.existing, newFile)>>]
                      /\ nextId' = nextId + 1
                      /\ req' = [req EXCEPT ![c] = <<[r EXCEPT !.phase = "stored",
                                                               !.existing = <<newFile>>]>>]
                      /\ UNCHANGED resp
             [] OTHER ->
                  LET newFile == r.existing[1]
                  IN  /\ SetAndRespond(c, Key("activeFile", r.user[1]), newFile.id,
                                       Success([file |-> newFile]))
                      /\ UNCHANGED nextId
    /\ UNCHANGED <<up, dialogVars>>

\* GET /files
GetFiles(c) ==
    /\ Handling(c, "GET /files")
    /\ LET r == req[c][1]
           v == verifyUser(r.auth)
       IN  IF v.user = << >> THEN Unauthorized(c, v)
           ELSE /\ Respond(c, Success([ files |-> Stored(kv, Key("files", v.user[1])),
                                        activeFileId |->
                                           IF kv[Key("activeFile", v.user[1])] = << >> THEN Null
                                           ELSE orNull(kv[Key("activeFile", v.user[1])][1]) ]),
                           {Key("files", v.user[1]), Key("activeFile", v.user[1])})
                /\ UNCHANGED <<kv, nextId>>
    /\ UNCHANGED <<up, dialogVars>>

\* POST /files/active
PostFilesActive(c) ==
    /\ Handling(c, "POST /files/active")
    /\ LET r == req[c][1]
           b == r.body
           v == verifyUser(r.auth)
       IN  IF v.user = << >> THEN Unauthorized(c, v)
           ELSE IF ~Truthy(b.fileId) THEN BadRequest(c, "File ID is required")
           ELSE /\ SetAndRespond(c, Key("activeFile", v.user[1]), b.fileId,
                                 Success([fileId |-> b.fileId]))
                /\ UNCHANGED nextId
    /\ UNCHANGED <<up, dialogVars>>

----------------------------------------------------------------------------
(* handleFileUpload after the parse: the calls of src/src/utils/api.ts *)

\* JSON.stringify and JSON.parse of a record: NaN becomes null, a property
\* that is undefined is dropped and reads as undefined again
JSON(rec) == [f \in DOMAIN rec |-> IF rec[f].k = "nan" THEN Null ELSE rec[f]]

\* the body sent without the file's id
withoutFileId(rec, fileId) ==
    JSON([f \in DOMAIN rec \cup {"fileId"} |-> IF f = "fileId" THEN Undefined ELSE rec[f]])

\* { ...rec, fileId }
withFileId(rec, fileId) ==
    JSON([f \in DOMAIN rec \cup {"fileId"} |-> IF f = "fileId" THEN fileId ELSE rec[f]])

Call(route, body) == [route |-> route, body |-> body]

AddCalls(recs, route, fileId) ==
    [i \in 1..Len(recs) |-> Call(route, withFileId(recs[i], fileId))]

SetActiveCall(fileId) == Call("POST /files/active", [fileId |-> fileId])

\* the file is made the active one before its records are sent
CallsOfActiveFirst(data, fileId) ==
    <<SetActiveCall(fileId)>>
    \o AddCalls(data.transactions, "POST /transactions", fileId)
    \o AddCalls(data.emis, "POST /emis", fileId)
    \o AddCalls(data.savingsGoals, "POST /savings", fileId)

\* the calls that follow fileApi.add, in the order they are awaited
CallsOf(data, fileId) ==
    AddCalls(data.transactions, "POST /transactions", fileId)
    \o AddCalls(data.emis, "POST /emis", fileId)
    \o AddCalls(data.savingsGoals, "POST /savings", fileId)
    \o <<SetActiveCall(fileId)>>

\* some row of w makes its normalizer throw, which rejects the whole parse
Throws(w) ==
    \E s \in 1..Len(w) : \E i \in 1..Len(w[s].rows) :
        RowOutcome(w[s].rows[i], classify(w[s].name)).tag = "throws"

\* the catch block
Fail(c, message) ==
    /\ up' = [up EXCEPT ![c].at = "failed", ![c].error = message]
    /\ resp' = [resp EXCEPT ![c] = << >>]
    /\ UNCHANGED req

\* apiCall
Send(c, call) ==
    /\ req' = [req EXCEPT ![c] = <<Request(call.route, Bearer(up[c].auth), call.body)>>]
    /\ resp' = [resp EXCEPT ![c] = << >>]

\* the file is parsed and its metadata sent
StartUpload(c) ==
    /\ up[c].at = "start"
    /\ LET w == up[c].file.sheets
           data == parseSheets(w, Len(w))
       IN  IF Throws(w) THEN Fail(c, ParseFailedMessage)
           ELSE IF data = EmptyResult THEN Fail(c, NoValidDataMessage)
           ELSE /\ up' = [up EXCEPT ![c].at = "file", ![c].data = data]
                /\ Send(c, Call("POST /files",
                                [fileName |-> up[c].file.name,
                                 transactionCount |-> Num(Len(data.transactions))]))
    /\ UNCHANGED <<kv, nextId, dialogVars>>

\* fileApi.add has answered
FileAdded(c) ==
    /\ up[c].at = "file" /\ resp[c] # << >>
    /\ LET r == resp[c][1]
       IN  IF r.status # 200 THEN Fail(c, r.error)
           ELSE LET fileId == r.data[1].file.id
                    calls == CallsOf(up[c].data, fileId)
                IN  /\ up' = [up EXCEPT ![c].at = "adding", ![c].fileId = <<fileId>>,
                                        ![c].calls = calls, ![c].i = 1]
                    /\ Send(c, calls[1])
    /\ UNCHANGED <<kv, nextId, dialogVars>>

\* an add of one of the three loops has answered
RecordAdded(c) ==
    /\ up[c].at = "adding" /\ resp[c] # << >>
    /\ up[c].calls[up[c].i].route # "POST /files/active"
    /\ LET r == resp[c][1]
       IN  IF r.status # 200 THEN Fail(c, r.error)
           ELSE /\ up' = [up EXCEPT ![c].i = @ + 1]
                /\ Send(c, up[c].calls[up[c].i + 1])
    /\ UNCHANGED <<kv, nextId, dialogVars>>

\* fileApi.setActive has answered
ActiveSet(c) ==
    /\ up[c].at = "adding" /\ resp[c] # << >>
    /\ up[c].calls[up[c].i].route = "POST /files/active"
    /\ LET r == resp[c][1]
       IN  IF r.status # 200 THEN Fail(c, r.error)
           ELSE /\ up' = [up EXCEPT ![c].at = "succeeded"]
                /\ resp' = [resp EXCEPT ![c] = << >>]
                /\ UNCHANGED req
    /\ UNCHANGED <<kv, nextId, dialogVars>>

\* onUploadComplete: the dashboard asks for the active file
UploadComplete(c) ==
    /\ up[c].at = "succeeded"
    /\ up' = [up EXCEPT ![c].at = "fetching"]
    /\ req' = [req EXCEPT ![c] = <<Request("GET /files", Bearer(up[c].auth), << >>)>>]
    /\ resp' = [resp EXCEPT ![c] = << >>]
    /\ UNCHANGED <<kv, nextId, dialogVars>>

\* fetchActiveFile
ActiveFileFetched(c) ==
    /\ up[c].at = "fetching" /\ resp[c] # << >>
    /\ LET r == resp[c][1]
       IN  up' = [up EXCEPT ![c].at = "shown",
                            ![c].shown = IF r.status = 200 /\ Truthy(r.data[1].activeFileId)
                                         THEN <<r.data[1].activeFileId>> ELSE @]
    /\ resp' = [resp EXCEPT ![c] = << >>]
    /\ UNCHANGED <<req, kv, nextId, dialogVars>>


----------------------------------------------------------------------------
(* Uploads against the server *)

GoalZeroTarget == << Cell(<<"N","a","m","e">>, Str(<<"F","u","n","d">>)), Cell(<<"T","a","r","g","e","t">>, Num(0)), Cell(<<"D","e","a","d","l","i","n","e">>, isoDay) >>

TxSheet(rows) == [name |-> <<"Q","1">>, rows |-> rows]
EmiSheet(rows) == [name |-> <<"E","M","I"," ","S","c","h","e","d","u","l","e">>, rows |-> rows]
GoalSheet(rows) == [name |-> <<"S","a","v","i","n","g","s">>, rows |-> rows]

\* file.name and the workbook the decoder makes of the file
File(sheets) == [name |-> Str(<<"a",".","x","l","s","x">>), sheets |-> sheets]

UploadFiles ==
    { File(<<TxSheet(<<TxPlain, TxNegative>>)>>),
      File(<<EmiSheet(<<EmiPlain>>)>>),
      File(<<GoalSheet(<<GoalPlain>>)>>),
      File(<<TxSheet(<<TxFull>>), EmiSheet(<<EmiTotals>>), GoalSheet(<<GoalSaved>>)>>),
      File(<<TxSheet(<<TxPlain, TxTypeEmpty>>)>>),
      File(<<TxSheet(<<TxEmptyCells>>)>>),
      File(<<TxSheet(<<TxPlain, TxEmptyCategory>>)>>),
      File(<<TxSheet(<<TxPlain>>), GoalSheet(<<GoalPlain, GoalZeroTarget>>)>>),
      File(<<TxSheet(<<TxNoDate>>)>>),
      File(<<TxSheet(<<TxPlain, TxBadSerial>>)>>) }

\* the access tokens a dialog may hold: two live sessions and an expired one
AccessTokens == { <<"t1">>, <<"t2">>, <<"t9">> }

\* what an earlier upload of u1 left in the store
PriorFile == [id |-> Str(<<"f","i","l","e","_","0">>), fileName |-> Str(<<"b",".","x","l","s","x">>), transactionCount |-> Num(1)]
PriorTransaction ==
    [ id |-> Str(<<"t","x","n","_","0">>), date |-> isoDay, description |-> rent, category |-> Str(<<"U","n","c","a","t","e","g","o","r","i","z","e","d">>),
      amount |-> Num(500), type |-> Str(<<"e","x","p","e","n","s","e">>), source |-> Null, fileId |-> PriorFile.id ]
PriorStore ==
    [k \in Keys |->
        CASE k = Key("files", "u1") -> << <<PriorFile>> >>
          [] k = Key("activeFile", "u1") -> <<PriorFile.id>>
          [] k = Key("transactions", "u1") -> << <<PriorTransaction>> >>
          [] OTHER -> << >>]

\* an upload about to start
Started(file, auth) == [Off EXCEPT !.at = "start", !.file = file, !.auth = auth]

\* the parse of the dialog is not running
DialogAtRest ==
    /\ workbook = << >> /\ pc = "sheet" /\ si = 1 /\ role = "none" /\ ri = 0 /\ acc = << >>
    /\ keys = NoKeys /\ result = EmptyResult /\ missingFields = {} /\ warnings = << >>
    /\ parseError = "null" /\ tz = 0 /\ previous = << >>

\* one upload runs alone
UploadInit ==
    /\ DialogAtRest
    /\ kv \in {EmptyStore, PriorStore}
    /\ nextId = 1
    /\ \E f \in UploadFiles, a \in AccessTokens :
          up = [c \in Uploads |-> IF c = 1 THEN Started(f, a) ELSE Off]
    /\ req = [c \in Uploads |-> << >>]
    /\ resp = [c \in Uploads |-> << >>]

UploadNext ==
    \E c \in Uploads :
        \/ StartUpload(c)
        \/ FileAdded(c)
        \/ RecordAdded(c)
        \/ ActiveSet(c)
        \/ UploadComplete(c)
        \/ ActiveFileFetched(c)
        \/ PostFiles(c)
        \/ PostTransactions(c)
        \/ PostEmis(c)
        \/ PostSavings(c)
        \/ PostFilesActive(c)
        \/ GetFiles(c)

UploadSpec == UploadInit /\ [][UploadNext]_vars


----------------------------------------------------------------------------
(* Properties of an upload *)

AddRoutes == {"POST /transactions", "POST /emis", "POST /savings"}
Collections == {"transactions", "emis", "savings"}

\* the user of the session an upload runs in, "" when the token is not live
UserOf(c) == IF getUser(up[c].auth) = << >> THEN "" ELSE getUser(up[c].auth)[1]

\* the records of a user's three collections that no earlier upload left
NewRecords(u) ==
    UNION { { Stored(kv, Key(p, u))[i] : i \in 1..Len(Stored(kv, Key(p, u))) } : p \in Collections }
    \ {PriorTransaction}

\* the ids of the file records stored for a user
FileIds(u) == { Stored(kv, Key("files", u))[i].id : i \in 1..Len(Stored(kv, Key("files", u))) }

\* C23: during one upload the file record is stored before any record is sent
\* to an add route, every add request carries the id of that file record, and
\* every record the upload has stored carries it: none is stored with a null
\* fileId or with the id of another file.
C23_RecordsCarryFileId ==
    /\ \A c \in Uploads :
          (req[c] # << >> /\ req[c][1].route \in AddRoutes) =>
              /\ up[c].fileId # << >>
              /\ up[c].fileId[1] \in FileIds(UserOf(c))
              /\ req[c][1].body.fileId = up[c].fileId[1]
    /\ \A u \in Users : \A rec \in NewRecords(u) :
          /\ rec.fileId \in FileIds(u) \ {PriorFile.id}
          /\ \E c \in Uploads : UserOf(c) = u /\ up[c].fileId = <<rec.fileId>>

\* an upload over a store that holds another file has stored a transaction, an
\* installment and a goal, all with the id of its file record
C23_Witness ==
    /\ up[1].at = "succeeded" /\ UserOf(1) = "u1"
    /\ PriorFile.id \in FileIds("u1")
    /\ \A p \in Collections : \E i \in 1..Len(Stored(kv, Key(p, "u1"))) :
          Stored(kv, Key(p, "u1"))[i].fileId = up[1].fileId[1]


\* the session of upload c is a live one
Authorized(c) == getUser(up[c].auth) # << >>

\* upload c is looking at the answer to one of its adds
AddAnswered(c) ==
    /\ up[c].at = "adding" /\ resp[c] # << >>
    /\ up[c].calls[up[c].i].route \in AddRoutes

\* C25: every record the row normalizers emit is accepted by the add route of
\* its type: the route stores it and does not answer 400 "Missing required
\* fields", also for a transaction with amount 0, a record with an empty date
\* text and a savings goal with target 0.
C25_EmittedRecordAccepted ==
    \A c \in Uploads :
        AddAnswered(c) =>
            /\ resp[c][1].status # 400
            /\ resp[c][1].error # "Missing required fields"

\* C26: an upload of an authorized user whose normalized result holds at least
\* one record of any kind does not end in the failure branch: its file record
\* is created and its records are persisted, also when the workbook yields
\* installments or savings goals and zero transactions.
C26_UploadWithRecordsCompletes ==
    \A c \in Uploads :
        (Authorized(c) /\ up[c].data # EmptyResult) => up[c].at # "failed"

\* C27: an upload that fails at any step (parse error, no valid data, a
\* rejected call) leaves the store as it was before the upload started: no
\* file record, no part of the upload's records and no change of the active
\* file remain.
C27_FailedUploadLeavesStore ==
    (up[1].at = "failed" /\ \A c \in Uploads \ {1} : up[c].at = "off") =>
        kv \in {EmptyStore, PriorStore}


\* how many records of a stored collection carry the file id
CountOf(stored, fileId) == Cardinality({ i \in 1..Len(stored) : stored[i].fileId = fileId })

\* every record of upload c is in its user's store, under the upload's file id
AllPersisted(c) ==
    /\ up[c].fileId # << >>
    /\ CountOf(Stored(kv, Key("transactions", UserOf(c))), up[c].fileId[1]) = Len(up[c].data.transactions)
    /\ CountOf(Stored(kv, Key("emis", UserOf(c))), up[c].fileId[1]) = Len(up[c].data.emis)
    /\ CountOf(Stored(kv, Key("savings", UserOf(c))), up[c].fileId[1]) = Len(up[c].data.savingsGoals)

\* C29: in a successful upload the setActive call is issued only after every
\* record of the upload has been persisted; when the upload completes, the
\* stored active file id is the id of the file record the upload created, and
\* the dashboard's fetch that follows shows that file.
C29_ActiveFileIsTheUpload ==
    \A c \in Uploads :
        /\ (req[c] # << >> /\ req[c][1].route = "POST /files/active") =>
              /\ AllPersisted(c)
              /\ req[c][1].body.fileId = up[c].fileId[1]
        /\ up[c].at \in {"succeeded", "fetching", "shown"} =>
              /\ AllPersisted(c)
              /\ up[c].fileId[1] \in FileIds(UserOf(c))
              /\ kv[Key("activeFile", UserOf(c))] = up[c].fileId
        /\ up[c].at = "shown" => up[c].shown = up[c].fileId

\* the dashboard shows the file of an upload of three kinds of records, made
\* over a store in which another file was the active one
C29_Witness ==
    /\ up[1].at = "shown" /\ up[1].shown = up[1].fileId /\ up[1].shown # <<PriorFile.id>>
    /\ PriorFile.id \in FileIds(UserOf(1))
    /\ up[1].data.emis # << >> /\ up[1].data.savingsGoals # << >>


----------------------------------------------------------------------------
(* Uploads running at the same time *)

ConcurrentFiles ==
    { File(<<TxSheet(<<TxPlain>>), EmiSheet(<<EmiPlain>>)>>),
      File(<<TxSheet(<<TxFull>>), GoalSheet(<<GoalSaved>>)>>) }

\* every dialog starts an upload, each in a live session; the server takes
\* the steps of their requests in any order
ConcurrentInit ==
    /\ DialogAtRest
    /\ kv = EmptyStore
    /\ nextId = 1
    /\ up \in [Uploads -> { Started(f, a) : f \in ConcurrentFiles, a \in DOMAIN Sessions }]
    /\ req = [c \in Uploads |-> << >>]
    /\ resp = [c \in Uploads |-> << >>]

ConcurrentSpec == ConcurrentInit /\ [][UploadNext]_vars

\* every add of upload c up to its call number n has been answered success
AnsweredAdds(c) ==
    IF up[c].at = "adding" THEN SubSeq(up[c].calls, 1, up[c].i - 1)
    ELSE IF up[c].at \in {"succeeded", "fetching", "shown"}
    THEN SubSeq(up[c].calls, 1, Len(up[c].calls) - 1)
    ELSE << >>

PrefixOf(route) ==
    CASE route = "POST /transactions" -> "transactions"
      [] route = "POST /emis" -> "emis"
      [] OTHER -> "savings"

\* the stored collection holds a record made of the body of the call
Holds(stored, b) ==
    \E i \in 1..Len(stored) :
        /\ stored[i].fileId = b.fileId
        /\ \A f \in DOMAIN b \cap {"description", "name"} : stored[i][f] = b[f]

\* C28: under any interleaving of the add requests of one user, every record
\* and every file record whose POST answered success is in that user's stored
\* collection afterwards: no successful add is lost through another request's
\* read-modify-write of the same key.
C28_NoSuccessfulAddLost ==
    \A c \in Uploads :
        /\ up[c].fileId # << >> => up[c].fileId[1] \in FileIds(UserOf(c))
        /\ \A n \in 1..Len(AnsweredAdds(c)) :
              Holds(Stored(kv, Key(PrefixOf(AnsweredAdds(c)[n].route), UserOf(c))),
                    AnsweredAdds(c)[n].body)


----------------------------------------------------------------------------
(* The other data routes of the server *)

\* array.filter(t => t[f] === value) when the query names a value
FilterBy(recs, f, value) ==
    IF Truthy(value) THEN SelectSeq(recs, LAMBDA t : t[f] = value) ELSE recs

\* GET /transactions with the query parameters fileId and type (the callers
\* of this model send no year and no month)
GetTransactions(c) ==
    /\ Handling(c, "GET /transactions")
    /\ LET r == req[c][1]
           v == verifyUser(r.auth)
           key == Key("transactions", v.user[1])
       IN  IF v.user = << >> THEN Unauthorized(c, v)
           ELSE /\ Respond(c, Success([transactions |->
                                FilterBy(FilterBy(Stored(kv, key), "fileId", Field(r.body, "fileId")),
                                         "type", Field(r.body, "type"))]), {key})
                /\ UNCHANGED <<kv, nextId>>
    /\ UNCHANGED <<up, dialogVars>>

\* GET /emis and GET /savings
GetRecords(c, p) ==
    /\ p \in {"emis", "savings"}
    /\ Handling(c, IF p = "emis" THEN "GET /emis" ELSE "GET /savings")
    /\ LET r == req[c][1]
           v == verifyUser(r.auth)
           key == Key(p, v.user[1])
       IN  IF v.user = << >> THEN Unauthorized(c, v)
           ELSE /\ Respond(c, Success([records |->
                                FilterBy(Stored(kv, key), "fileId", Field(r.body, "fileId"))]), {key})
                /\ UNCHANGED <<kv, nextId>>
    /\ UNCHANGED <<up, dialogVars>>

DeleteRoute(p) ==
    CASE p = "transactions" -> "DELETE /transactions/:id"
      [] p = "emis" -> "DELETE /emis/:id"
      [] OTHER -> "DELETE /savings/:id"

\* DELETE /transactions/:id, /emis/:id and /savings/:id
DeleteRecord(c, p) ==
    /\ Handling(c, DeleteRoute(p))
    /\ LET r == req[c][1]
           v == verifyUser(r.auth)
           key == Key(p, v.user[1])
           updated == SelectSeq(Stored(kv, key), LAMBDA t : t.id # r.body.id)
       IN  IF v.user = << >> THEN Unauthorized(c, v)
           ELSE IF Len(updated) = Len(Stored(kv, key))
           THEN Respond(c, Failure(404, "not found"), {key}) /\ UNCHANGED <<kv, nextId>>
           ELSE /\ SetAndRespond(c, key, updated, Success([message |-> "deleted"]))
                /\ UNCHANGED nextId
    /\ UNCHANGED <<up, dialogVars>>

\* { ...old, ...body, updatedAt }
Merged(old, b) ==
    [f \in DOMAIN old \cup DOMAIN b \cup {"updatedAt"} |->
        IF f = "updatedAt" THEN Str(<<"n","o","w">>) ELSE IF f \in DOMAIN b THEN b[f] ELSE old[f]]

\* PUT /emis/:id and PUT /savings/:id
PutRecord(c, p) ==
    /\ p \in {"emis", "savings"}
    /\ Handling(c, IF p = "emis" THEN "PUT /emis/:id" ELSE "PUT /savings/:id")
    /\ LET r == req[c][1]
           v == verifyUser(r.auth)
           key == Key(p, v.user[1])
           recs == Stored(kv, key)
           found == { i \in 1..Len(recs) : recs[i].id = r.body.id }
       IN  IF v.user = << >> THEN Unauthorized(c, v)
           ELSE IF found = {}
           THEN Respond(c, Failure(404, "not found"), {key}) /\ UNCHANGED <<kv, nextId>>
           ELSE LET i == CHOOSE i \in found : \A j \in found : i <= j
                    updated == [recs EXCEPT ![i] = Merged(recs[i], r.body.fields)]
                IN  /\ SetAndRespond(c, key, updated, Success(updated[i]))
                    /\ UNCHANGED nextId
    /\ UNCHANGED <<up, dialogVars>>

\* GET /user/profile
GetProfile(c) ==
    /\ Handling(c, "GET /user/profile")
    /\ LET r == req[c][1]
           v == verifyUser(r.auth)
           key == Key("user", v.user[1])
       IN  IF v.user = << >> THEN Unauthorized(c, v)
           ELSE /\ IF kv[key] = << >> THEN Respond(c, Failure(404, "Profile not found"), {key})
                   ELSE Respond(c, Success([profile |-> kv[key][1]]), {key})
                /\ UNCHANGED <<kv, nextId>>
    /\ UNCHANGED <<up, dialogVars>>

\* GET /export
GetExport(c) ==
    /\ Handling(c, "GET /export")
    /\ LET r == req[c][1]
           v == verifyUser(r.auth)
           u == v.user[1]
       IN  IF v.user = << >> THEN Unauthorized(c, v)
           ELSE /\ Respond(c, Success([ profile |-> kv[Key("user", u)],
                                        transactions |-> Stored(kv, Key("transactions", u)),
                                        emis |-> Stored(kv, Key("emis", u)),
                                        savings |-> Stored(kv, Key("savings", u)) ]),
                           { Key(p, u) : p \in {"user", "transactions", "emis", "savings"} })
                /\ UNCHANGED <<kv, nextId>>
    /\ UNCHANGED <<up, dialogVars>>


----------------------------------------------------------------------------
(* Any caller of the data routes *)

MaxCalls == 1

PriorEmi ==
    [ id |-> Str(<<"e","m","i","_","0">>), name |-> Str(<<"C","a","r">>), amount |-> Num(5000), dueDate |-> isoDay,
      totalAmount |-> Num(0), paid |-> Num(0), status |-> Str(<<"u","p","c","o","m","i","n","g">>), fileId |-> PriorFile.id ]
PriorGoal ==
    [ id |-> Str(<<"g","o","a","l","_","0">>), name |-> Str(<<"T","r","i","p">>), targetAmount |-> Num(100), currentAmount |-> Num(0),
      deadline |-> isoDay, status |-> Str(<<"o","n","-","t","r","a","c","k">>), fileId |-> PriorFile.id ]
Profile(u) == [id |-> u, name |-> Str(<<"A">>)]

\* both users have signed up and have uploaded the same kind of file
SharedStore ==
    [k \in Keys |->
        CASE k[1] = "user" -> <<Profile(k[2])>>
          [] k[1] = "files" -> << <<PriorFile>> >>
          [] k[1] = "activeFile" -> <<PriorFile.id>>
          [] k[1] = "transactions" -> << <<PriorTransaction>> >>
          [] k[1] = "emis" -> << <<PriorEmi>> >>
          [] OTHER -> << <<PriorGoal>> >>]

\* the Authorization headers a request may come with: none, no token, an empty
\* token, a token of no session, and the tokens of the two live sessions
Headers ==
    { Undefined, Str(<<"B","e","a","r","e","r">>), Str(<<"B","e","a","r","e","r"," ">>), Bearer(<<"t9">>), Bearer(<<"t1">>), Bearer(<<"t2">>) }

\* the requests of the data routes, with the bodies, queries and :id they carry
ApiCalls ==
    { Call("POST /transactions",
           [ date |-> isoDay, description |-> rent, category |-> Str(<<"F","o","o","d">>), amount |-> Num(500),
             type |-> Str(<<"e","x","p","e","n","s","e">>), source |-> Undefined, fileId |-> Undefined ]),
      Call("POST /emis",
           [ name |-> Str(<<"C","a","r">>), amount |-> Num(900), dueDate |-> isoDay,
             totalAmount |-> Undefined, paid |-> Undefined, fileId |-> Undefined ]),
      Call("POST /savings",
           [ name |-> Str(<<"T","r","i","p">>), targetAmount |-> Num(100), currentAmount |-> Undefined,
             deadline |-> isoDay, fileId |-> Undefined ]),
      Call("POST /files", [fileName |-> Str(<<"a",".","x","l","s","x">>), transactionCount |-> Num(1)]),
      Call("POST /files/active", [fileId |-> Str(<<"f","i","l","e","_","7">>)]),
      Call("GET /files", << >>),
      Call("GET /transactions", [fileId |-> PriorFile.id]),
      Call("GET /emis", << >>),
      Call("GET /savings", << >>),
      Call("DELETE /transactions/:id", [id |-> PriorTransaction.id]),
      Call("DELETE /emis/:id", [id |-> PriorEmi.id]),
      Call("DELETE /savings/:id", [id |-> PriorGoal.id]),
      Call("PUT /emis/:id", [id |-> PriorEmi.id, fields |-> [paid |-> Num(100)]]),
      Call("PUT /savings/:id", [id |-> PriorGoal.id, fields |-> [currentAmount |-> Num(40)]]),
      Call("GET /user/profile", << >>),
      Call("GET /export", << >>) }

\* a caller sends a request to a data route
ApiCall(c) ==
    /\ up[c].at = "api" /\ req[c] = << >> /\ up[c].i < MaxCalls
    /\ \E call \in ApiCalls, h \in Headers :
          req' = [req EXCEPT ![c] = <<Request(call.route, h, call.body)>>]
    /\ resp' = [resp EXCEPT ![c] = << >>]
    /\ up' = [up EXCEPT ![c].i = @ + 1]
    /\ UNCHANGED <<kv, nextId, dialogVars>>

ApiInit ==
    /\ DialogAtRest
    /\ kv \in {EmptyStore, PriorStore, SharedStore}
    /\ nextId = 1
    /\ up = [c \in Uploads |-> IF c = 1 THEN [Off EXCEPT !.at = "api"] ELSE Off]
    /\ req = [c \in Uploads |-> << >>]
    /\ resp = [c \in Uploads |-> << >>]

ApiNext ==
    \E c \in Uploads :
        \/ ApiCall(c)
        \/ PostTransactions(c)
        \/ PostEmis(c)
        \/ PostSavings(c)
        \/ PostFiles(c)
        \/ PostFilesActive(c)
        \/ GetFiles(c)
        \/ GetTransactions(c)
        \/ \E p \in {"emis", "savings"} : GetRecords(c, p)
        \/ \E p \in Collections : DeleteRecord(c, p)
        \/ \E p \in {"emis", "savings"} : PutRecord(c, p)
        \/ GetProfile(c)
        \/ GetExport(c)

ApiSpec == ApiInit /\ [][ApiNext]_vars

\* headers with which no user is named, and the user each of the others names
NoUserHeaders == { Undefined, Str(<<"B","e","a","r","e","r">>), Str(<<"B","e","a","r","e","r"," ">>), Bearer(<<"t9">>) }
NamedBy(h) == IF h = Bearer(<<"t1">>) THEN "u1" ELSE "u2"

\* a step of the handler of caller c's request
HandlerStep(c) == req[c] # << >> /\ req'[c] # req[c]

\* C30: every data route answers 401 and leaves the store unchanged when the
\* Authorization header is missing, has no token, or its token resolves to no
\* user; and every read and every write of an authorized request is of a key
\* that ends in the user id of that request.
C30_OwnKeysOnly ==
    [][\A c \in Uploads :
          HandlerStep(c) =>
              IF req[c][1].auth \in NoUserHeaders
              THEN /\ resp'[c] # << >>
                   /\ resp'[c][1].status = 401
                   /\ resp'[c][1].touched = {}
                   /\ kv' = kv
              ELSE /\ \A k \in Keys : kv'[k] # kv[k] => k[2] = NamedBy(req[c][1].auth)
                   /\ req'[c] # << >> =>
                         \A k \in req'[c][1].touched : k[2] = NamedBy(req[c][1].auth)
                   /\ resp'[c] # << >> =>
                         \A k \in resp'[c][1].touched : k[2] = NamedBy(req[c][1].auth)]_vars

\* a request of u2 has changed u2's part of a store that both users have data
\* in, and u1's part is as it was
C30_Witness ==
    /\ resp[1] # << >> /\ resp[1][1].status = 200 /\ resp[1][1].touched # {}
    /\ kv # SharedStore
    /\ \A k \in Keys : k[2] = "u1" => kv[k] = SharedStore[k]

====
